---- MODULE Spec2Model ----
(***************************************************************************)
(* Model of the f1-news-bot post-lifecycle engine: feed ingestion with the *)
(* fingerprint store (scraper.py), the bounded published-post ledger       *)
(* (storage.py) and the publish workflow of the bot handlers (bot.py).     *)
(*                                                                         *)
(* Specifications:                                                         *)
(*   SpecIngest  collect_new_news step by step, with crashes               *)
(*   SpecLedger  the ledger's storage operations on a nearly full ledger   *)
(*   Spec        the handlers, interleaving at their await points          *)
(*   SpecSeq     the same handlers, one at a time                          *)
(***************************************************************************)
EXTENDS Integers, Sequences, FiniteSets, TLC

(***************************************************************************)
(* Bounds of the model.                                                    *)
(***************************************************************************)
\* entries one feed can hold (fetch_rss reads feed.entries[:15])
MaxFeedLen == 1
\* ingestion cycles started in one behaviour
MaxCycles == 2

\* ledger appends in one behaviour of SpecLedger
MaxAppends == 3
\* how far below MAX_PUBLISHED the stored ledger of SpecLedger may start
MaxRoom == 2

\* inbound events (commands, button presses, messages, channel changes)
MaxEvents == 4
\* inbound events when the handlers run one at a time (SpecSeq)
MaxSeqEvents == 5
\* inbound events of SpecReply
MaxReplyEvents == 5
\* inbound events of SpecModes
MaxModeEvents == 5
\* check cycles started in SpecCheck
MaxCheckEvents == 3
\* check cycles started in SpecRestart
MaxRestartEvents == 2
\* ledger entries the stored ledger holds when the handlers start
MaxStored == 1

\* candidates handed to find_related_post when it is called on its own
MaxCands == 2

\* items a check cycle of SpecAnalyze collects beyond one full sub-batch
MaxOver == 2

\* midnights that pass in one behaviour of SpecDaily
MaxDays == 1
\* items handed to one _save_to_daily_cache call in SpecDaily
MaxBatch == 2
\* the scored items the analyzer gives in SpecDaily: scores on both sides of
\* each end of the digest range
DailyItems ==
    {[url |-> 1, score |-> 2], [url |-> 1, score |-> 7],
     [url |-> 2, score |-> 3], [url |-> 2, score |-> 8]}

\* article URLs the feeds can offer
Urls == {1, 2}
\* config.F1_SOURCES, reduced to two sources
Sources == {1, 2}
NumSources == Cardinality(Sources)

(***************************************************************************)
(* Sequence helpers.                                                       *)
(***************************************************************************)
Range(s) == {s[i] : i \in 1..Len(s)}

SeqsUpTo(S, n) == UNION {[1..k -> S] : k \in 0..n}

\* s[-n:] of Python, for n >= 1
LastN(s, n) == IF Len(s) <= n THEN s ELSE SubSeq(s, Len(s) - n + 1, Len(s))

NoDup(s) == \A i, j \in 1..Len(s) : i # j => s[i] # s[j]

(***************************************************************************)
(* scraper.py                                                              *)
(***************************************************************************)
\* NewsItem.__post_init__: uid = md5(url).hexdigest(); one digest per URL
Uid(url) == <<"md5", url>>

VARIABLES
    seenFile,      \* seen_news.json: the persisted set of fingerprints
    feeds,         \* what each source's RSS feed offers now (URLs, in order)
    cpc,           \* position inside collect_new_news
    seen,          \* collect_new_news: local `seen`
    all_news,      \* collect_new_news: local `all_news`
    srcIdx,        \* collect_new_news: the source the loop is at
    cycles,        \* ingestion cycles started so far
    fetched,       \* history: what fetch_rss returned per source in this cycle
    storeAtStart,  \* history: seenFile when the running cycle started
    ingested,      \* history: fingerprints whose ingestion completed
    yieldLog,      \* history: every item uid returned to a caller, in order
    cycleLog,      \* history: the completed cycles since the last clearing
    crashLog,      \* history: the last cycle interrupted before its save
    cleared        \* history: the operator has cleared the store

ingestVars == <<seenFile, feeds, cpc, seen, all_news, srcIdx, cycles, fetched,
                storeAtStart, ingested, yieldLog, cycleLog, crashLog, cleared>>

VARIABLES
    ledger,        \* published_posts.json: the list of ledger entries
    nextMid,       \* the message id the channel gives to its next message
    appendLog,     \* history: every entry ever appended, in append order
    pruned         \* history: reconciliation has removed an entry

ledgerVars == <<ledger, nextMid, appendLog, pruned>>

VARIABLES
    news_cache,       \* bot.news_cache: uid -> hype score of the alerted item
    generated_posts,  \* bot.generated_posts: uid -> draft text
    post_photos,      \* bot.post_photos: uid -> file id
    reply_targets,    \* bot.reply_targets: uid -> channel message id
    photo_state,      \* bot.photo_state: chat -> uid awaiting a photo
    editing_state,    \* bot.editing_state: chat -> uid being edited
    daily_news_cache, \* bot.daily_news_cache: day -> bucket of scored items
    dailyFile,        \* daily_cache.json
    today,            \* the calendar day
    dailyOp,          \* history: the last operation on the daily cache
    buttons,          \* the inline buttons shown to the operator so far
    chan,             \* the channel: message id -> what was posted
    deletedMsgs,      \* channel messages deleted out of band
    updates,          \* channel_post updates not yet dispatched
    tasks,            \* the handler invocations in progress
    events,           \* inbound events so far
    transmits,        \* history: every post the bot sent to the channel
    genLog,           \* history: the generations whose collaborator call failed
    reconLog,         \* history: the last reconciliation that finished
    checkLog,         \* history: the last check cycle that finished
    lastMsg,          \* history: the last private message of the operator
    resolver_in,      \* find_related_post called on its own: its arguments
    resolver_out,     \* find_related_post called on its own: what it returned
    analysis_in,      \* a check cycle's analysis run on its own: news, responses
    analysis_out,     \* a check cycle's analysis run on its own: what came out
    load_in,          \* the files loaded on their own: the shape of each
    load_out          \* the files loaded on their own: the stores, the writes

wfVars == <<news_cache, generated_posts, post_photos, reply_targets, photo_state,
            editing_state, daily_news_cache, dailyFile, today, dailyOp, buttons, chan, deletedMsgs, updates,
            tasks, events, transmits, genLog,
            reconLog, checkLog, lastMsg, resolver_in, resolver_out, analysis_in,
            analysis_out, load_in, load_out>>

vars == <<ingestVars, ledgerVars, wfVars>>

otherThanIngest == <<ledgerVars, wfVars>>

\* load_seen: the set stored in the file
load_seen(file) == file

\* save_seen: the file holds exactly the set
save_seen(s) == s

NewItems_NoFilter(items, seenSet) == items

\* collect_new_news, line 145: the items whose uid is not in `seen`
NewItems(items, seenSet) == SelectSeq(items, LAMBDA it : Uid(it) \notin seenSet)

MarkSeen_Forget(seenSet, news) == seenSet

\* collect_new_news, lines 150-151: add every yielded uid to `seen`
MarkSeen(seenSet, news) == seenSet \cup {Uid(news[i]) : i \in 1..Len(news)}

\* fetch_rss: the feed's entries, or [] when the request or the parse raised
FetchRss(s, ok) == IF ok THEN feeds[s] ELSE <<>>

\* collect_new_news, line 139
CollectStart ==
    /\ cpc = "idle"
    /\ cycles < MaxCycles
    /\ seen' = load_seen(seenFile)
    /\ all_news' = <<>>
    /\ srcIdx' = 1
    /\ fetched' = <<>>
    /\ storeAtStart' = seenFile
    /\ cycles' = cycles + 1
    /\ cpc' = "loop"
    /\ UNCHANGED <<seenFile, feeds, ingested, yieldLog, cycleLog, crashLog, cleared,
                   otherThanIngest>>

CollectSource_SaveEarly ==
    /\ cpc = "loop"
    /\ \E ok \in BOOLEAN :
         LET items == FetchRss(srcIdx, ok)
             new_items == NewItems(items, seen)
         IN /\ all_news' = all_news \o new_items
            /\ fetched' = Append(fetched, items)
            /\ seenFile' = MarkSeen(seenFile, new_items)
    /\ srcIdx' = srcIdx + 1
    /\ cpc' = IF srcIdx = NumSources THEN "mark" ELSE "loop"
    /\ UNCHANGED <<feeds, seen, cycles, storeAtStart, ingested, yieldLog,
                   cycleLog, crashLog, cleared,
                   otherThanIngest>>

\* collect_new_news, lines 142-147: one source of the loop
CollectSource ==
    /\ cpc = "loop"
    /\ \E ok \in BOOLEAN :
         LET items == FetchRss(srcIdx, ok)
             new_items == NewItems(items, seen)
         IN /\ all_news' = all_news \o new_items
            /\ fetched' = Append(fetched, items)
    /\ srcIdx' = srcIdx + 1
    /\ cpc' = IF srcIdx = NumSources THEN "mark" ELSE "loop"
    /\ UNCHANGED <<seenFile, feeds, seen, cycles, storeAtStart, ingested, yieldLog,
                   cycleLog, crashLog, cleared,
                   otherThanIngest>>

\* collect_new_news, lines 150-151
CollectMark ==
    /\ cpc = "mark"
    /\ seen' = MarkSeen(seen, all_news)
    /\ cpc' = "save"
    /\ UNCHANGED <<seenFile, feeds, all_news, srcIdx, cycles, fetched, storeAtStart,
                   ingested, yieldLog, cycleLog, crashLog, cleared,
                   otherThanIngest>>

\* collect_new_news, line 152
CollectSave ==
    /\ cpc = "save"
    /\ seenFile' = save_seen(seen)
    /\ crashLog' = <<>>
    /\ cpc' = "return"
    /\ UNCHANGED <<feeds, seen, all_news, srcIdx, cycles, fetched, storeAtStart,
                   ingested, yieldLog, cycleLog, cleared,
                   otherThanIngest>>

\* collect_new_news, line 155: the caller receives the batch
CollectReturn ==
    /\ cpc = "return"
    /\ yieldLog' = yieldLog \o [i \in 1..Len(all_news) |-> Uid(all_news[i])]
    /\ ingested' = ingested \cup {Uid(all_news[i]) : i \in 1..Len(all_news)}
    /\ cycleLog' = Append(cycleLog, [fetched |-> fetched, batch |-> all_news])
    /\ cpc' = "idle"
    /\ seen' = {}
    /\ all_news' = <<>>
    /\ srcIdx' = 1
    /\ fetched' = <<>>
    /\ UNCHANGED <<seenFile, feeds, cycles, storeAtStart, crashLog, cleared,
                   otherThanIngest>>

\* The process dies inside collect_new_news: the locals are lost, the file stays.
Crash ==
    /\ cpc # "idle"
    /\ crashLog' = IF cpc \in {"mark", "save"}
                   THEN <<[fetched |-> fetched, cand |-> all_news,
                           store |-> storeAtStart]>>
                   ELSE crashLog
    /\ cpc' = "idle"
    /\ seen' = {}
    /\ all_news' = <<>>
    /\ srcIdx' = 1
    /\ fetched' = <<>>
    /\ UNCHANGED <<seenFile, feeds, cycles, storeAtStart, ingested, yieldLog,
                   cycleLog, cleared,
                   otherThanIngest>>

\* clear_seen (imported by bot.py, confirmed by the operator): empties the store
ClearSeen ==
    /\ cpc = "idle"
    /\ seenFile # {}
    /\ ~cleared
    /\ seenFile' = {}
    /\ cleared' = TRUE
    /\ cycleLog' = <<>>
    /\ crashLog' = <<>>
    /\ UNCHANGED <<feeds, cpc, seen, all_news, srcIdx, cycles, fetched, storeAtStart,
                   ingested, yieldLog,
                   otherThanIngest>>

\* A source publishes one more article.
FeedPost ==
    /\ \E s \in Sources, u \in Urls :
         /\ Len(feeds[s]) < MaxFeedLen
         /\ feeds' = [feeds EXCEPT ![s] = Append(@, u)]
    /\ UNCHANGED <<seenFile, cpc, seen, all_news, srcIdx, cycles, fetched,
                   storeAtStart, ingested, yieldLog, cycleLog, crashLog, cleared,
                   otherThanIngest>>

(***************************************************************************)
(* storage.py: the published-post ledger.                                  *)
(***************************************************************************)
MAX_PUBLISHED == 50

\* A text is <<which text, its length in characters>>.
Texts == {<<1, 100>>, <<2, 2000>>}
\* the text of a post made in the channel by hand
StoredText == <<3, 100>>

\* The record add_published stores (title and timestamp are left out).
Entry(uid, text, mid) == [uid |-> uid, text |-> text, mid |-> mid]

\* handle_channel_post: uid=f"manual_{msg.message_id}"
ManualUid(mid) == <<"manual", mid>>

\* load_published: the stored list
load_published(file) == file

save_published_KeepOldest(posts) ==
    IF Len(posts) > MAX_PUBLISHED THEN SubSeq(posts, 1, MAX_PUBLISHED) ELSE posts

\* save_published: posts[-MAX_PUBLISHED:] when longer than MAX_PUBLISHED
save_published(posts) ==
    IF Len(posts) > MAX_PUBLISHED THEN LastN(posts, MAX_PUBLISHED) ELSE posts

\* add_published: load, append, save
add_published(file, uid, text, mid) ==
    save_published(Append(load_published(file), Entry(uid, text, mid)))

\* remove_posts_by_msg_ids (imported by bot.py from storage): load, drop the
\* entries whose channel message id is in msg_ids, save
remove_posts_by_msg_ids(file, msg_ids) ==
    save_published(SelectSeq(load_published(file), LAMBDA p : p.mid \notin msg_ids))

\* get_recent_posts(n)
get_recent_posts(file, n) == LastN(load_published(file), n)

\* find_post_by_uid: the first entry with that uid, <<>> for None
find_post_by_uid(file, uid) ==
    LET posts == load_published(file)
        hits == {i \in 1..Len(posts) : posts[i].uid = uid}
    IN IF hits = {} THEN <<>>
       ELSE <<posts[CHOOSE i \in hits : \A j \in hits : i <= j]>>

MsgIds(posts) == {posts[i].mid : i \in 1..Len(posts)}

\* A ledger left by earlier runs: n captured channel posts with ids 1..n.
StoredLedger(n) == [i \in 1..n |-> Entry(ManualUid(i), StoredText, i)]

\* One writer appends an entry for a fresh channel message (the callers of
\* add_published are _do_publish and handle_channel_post).
AppendOp ==
    /\ Len(appendLog) < MAX_PUBLISHED + MaxAppends
    /\ \E e \in {Entry(Uid(1), <<1, 100>>, nextMid),
                 Entry(ManualUid(nextMid), StoredText, nextMid)} :
         /\ ledger' = add_published(ledger, e.uid, e.text, e.mid)
         /\ appendLog' = Append(appendLog, e)
    /\ nextMid' = nextMid + 1
    /\ UNCHANGED <<pruned, ingestVars, wfVars>>

\* Reconciliation removes the entries of some failed probes.
RemoveOp ==
    /\ ~pruned
    /\ \E m \in MsgIds(ledger) :
         ledger' = remove_posts_by_msg_ids(ledger, {m})
    /\ pruned' = TRUE
    /\ UNCHANGED <<nextMid, appendLog, ingestVars, wfVars>>

(***************************************************************************)
(* bot.py: the workspace, the channel and the handlers.                    *)
(***************************************************************************)
HYPE_THRESHOLD == 7
CAPTION_LIMIT == 1024
PROBED_POSTS == 50
PAGE_SIZE == 5

\* the handler invocations that can be suspended at the same time
Tasks == {1, 2}
\* the conversations that talk to the bot
Chats == {1}
\* the items the workspace can hold
WUids == {Uid(u) : u \in Urls}
\* what the feeds offer while the handlers run
WorkflowFeeds == [s \in Sources |-> IF s = 1 THEN <<1>> ELSE <<>>]
\* scores the scoring collaborator gives (0: it gave none)
ScoreChoices == {0, 3, 8}

\* generate_news_post, line 158: what it returns when the collaborator raised
ErrText == <<0, 40>>
\* generate_news_post, lines 139-158: the text of the collaborator, or the error
\* text when the call raised
generate_news_post(ok, text) == IF ok THEN text ELSE ErrText
\* the photo file ids an operator can send
Files == {1}

\* absent keys of the workspace maps
NoText == <<-1, 0>>
NoUid == <<"none", 0>>
Absent == -1

\* _do_publish, line 453: post[:1024]
Caption(text) == <<text[1], IF text[2] > CAPTION_LIMIT THEN CAPTION_LIMIT ELSE text[2]>>

Put(f, k, v) == [f EXCEPT ![k] = v]

\* generated_post_keyboard
Keyboard(uid) == {<<"publish", uid, 0>>, <<"edit", uid, 0>>, <<"regenerate", uid, 0>>,
                  <<"photo", uid, 0>>, <<"replyselect", uid, 0>>}

\* what the workspace holds for an item, and how many entries were ever appended
Snapshot(uid) == [text |-> generated_posts[uid], photo |-> post_photos[uid],
                  reply |-> reply_targets[uid], appended |-> Len(appendLog)]

NoSnap == [text |-> NoText, photo |-> 0, reply |-> 0, appended |-> 0]

\* no reconciliation has finished yet
NoRecon == [before |-> <<>>, failed |-> {}, after |-> <<>>, returned |-> <<>>]

IdleTask == [pc |-> "idle", kind |-> "none", uid |-> NoUid, post |-> NoText,
             reply |-> 0, photo |-> 0, posts |-> <<>>, i |-> 0, deleted_ids |-> {},
             cand |-> FALSE, msg |-> 0, hot |-> <<>>, page |-> 0, snap |-> NoSnap,
             resolved |-> "skipped", analyzed |-> <<>>, cached |-> <<>>,
             alerted |-> <<>>]

\* no check cycle has finished yet
NoCheck == [done |-> FALSE, ok |-> FALSE, analyzed |-> <<>>, cached |-> <<>>,
            alerted |-> <<>>]

AllIdle == \A t \in Tasks : tasks[t].pc = "idle"

\* the slot a new handler invocation takes
Free == CHOOSE t \in Tasks :
            /\ tasks[t].pc = "idle"
            /\ \A o \in Tasks : tasks[o].pc = "idle" => t <= o

HasFree == \E t \in Tasks : tasks[t].pc = "idle"

\* The inbound events one behaviour takes: "seq" runs the handlers one at a
\* time, "reply" is an operator who only checks, generates, publishes and
\* chooses reply targets, "any" is every event at any time.
Budget(mode) ==
    CASE mode = "seq" -> MaxSeqEvents
      [] mode = "reply" -> MaxReplyEvents
      [] mode = "modes" -> MaxModeEvents
      [] mode = "check" -> MaxCheckEvents
      [] mode = "restart" -> MaxRestartEvents
      [] OTHER -> MaxEvents

\* the specifications in which the handlers run one at a time
Sequential(mode) == mode \in {"seq", "modes"}

\* An event is dispatched: at any time, or only once every handler that was
\* started has finished.
Dispatch(mode) ==
    /\ events < Budget(mode)
    /\ Sequential(mode) => AllIdle

(***************************************************************************)
(* Private messages of the operator and the handler create_bot routes      *)
(* them to.  A message is a text, a text that begins with "/" without      *)
(* being a bot command ("slash"), a bot command no CommandHandler is       *)
(* registered for, such as /cancel ("command"), a photo, or anything else  *)
(* (a sticker, a document, a voice note).                                  *)
(***************************************************************************)
SlashText == <<3, 8>>

Messages ==
    [kind : {"text"}, text : Texts, file : {0}]
      \cup {[kind |-> "slash", text |-> SlashText, file |-> 0],
            [kind |-> "command", text |-> SlashText, file |-> 0],
            [kind |-> "other", text |-> NoText, file |-> 0]}
      \cup [kind : {"photo"}, text : {NoText}, file : Files]

NoMsg == [n |-> 0, chat |-> 0, kind |-> "none", text |-> NoText, file |-> 0]

\* create_bot, lines 895-903: filters.PHOTO goes to handle_photo_message,
\* filters.TEXT & ~filters.COMMAND to handle_text_message; nothing is
\* registered for other commands or other kinds of message
Route(kind) ==
    CASE kind = "photo" -> "handle_photo_message"
      [] kind \in {"text", "slash"} -> "handle_text_message"
      [] OTHER -> "none"

\* new_text.startswith("/")
StartsWithSlash(text) == text = SlashText

\* handle_photo_message: what it leaves in photo_state, post_photos, buttons
handle_photo_message(chat, file_id) ==
    LET uid == photo_state[chat]
    IN IF uid = NoUid
       THEN [photo_state |-> photo_state, post_photos |-> post_photos,
             buttons |-> buttons]
       ELSE [photo_state |-> Put(photo_state, chat, NoUid),
             post_photos |-> Put(post_photos, uid, file_id),
             buttons |-> buttons \cup Keyboard(uid)]

\* handle_text_message: what it leaves in photo_state, editing_state,
\* generated_posts, buttons
handle_text_message(chat, new_text) ==
    LET same == [photo_state |-> photo_state, editing_state |-> editing_state,
                 generated_posts |-> generated_posts, buttons |-> buttons]
        uid == editing_state[chat]
    IN IF photo_state[chat] # NoUid
       THEN [same EXCEPT !.photo_state = Put(photo_state, chat, NoUid)]
       ELSE IF uid = NoUid THEN same
       ELSE IF StartsWithSlash(new_text)
       THEN [same EXCEPT !.editing_state = Put(editing_state, chat, NoUid)]
       ELSE [same EXCEPT !.editing_state = Put(editing_state, chat, NoUid),
                         !.generated_posts = Put(generated_posts, uid, new_text),
                         !.buttons = buttons \cup Keyboard(uid)]

\* collect_new_news, lines 139-147, over what fetch_rss returned per source
RECURSIVE CollectFrom(_, _, _)
CollectFrom(lists, seenSet, s) ==
    IF s > NumSources THEN <<>>
    ELSE NewItems(lists[s], seenSet) \o CollectFrom(lists, seenSet, s + 1)

\* hot_news.sort(key=hype_score, reverse=True): stable, by score descending
RECURSIVE InsertDesc(_, _)
InsertDesc(x, s) ==
    IF s = <<>> THEN <<x>>
    ELSE IF Head(s).score <= x.score THEN <<x>> \o s
    ELSE <<Head(s)>> \o InsertDesc(x, Tail(s))

RECURSIVE SortDesc(_)
SortDesc(s) == IF s = <<>> THEN <<>> ELSE InsertDesc(Head(s), SortDesc(Tail(s)))

(***************************************************************************)
(* analyzer.analyze_news_batch and the sub-batches of a check cycle.       *)
(* A response of the scoring collaborator is a call that raised, or a list *)
(* of entries [index, score]; Garbage is an entry that is no JSON object.  *)
(***************************************************************************)
BATCH_SIZE == 10

Garbage == [index |-> 0 - 1, score |-> 0, dict |-> FALSE]
ItemData(index, score) == [index |-> index, score |-> score, dict |-> TRUE]

\* analyze_news_batch, lines 81-87: the entries are applied in order; an entry
\* with an index out of range is skipped; at an entry that is no object .get
\* raises and the rest is not applied
RECURSIVE ApplyData(_, _)
ApplyData(news_items, items_data) ==
    IF items_data = <<>> THEN news_items
    ELSE LET item_data == Head(items_data)
             idx == item_data.index
         IN IF ~item_data.dict THEN news_items
            ELSE ApplyData(IF 0 <= idx /\ idx < Len(news_items)
                           THEN [news_items EXCEPT ![idx + 1].score = item_data.score]
                           ELSE news_items,
                           Tail(items_data))

\* analyze_news_batch, lines 20-96
analyze_news_batch(news_items, response) ==
    IF news_items = <<>> THEN <<>>
    ELSE IF response.raised THEN news_items
    ELSE ApplyData(news_items, response.data)

\* cmd_check, lines 240-245: for i in range(0, len(news), 10); responses[k] is
\* what the collaborator does on the k-th call
RECURSIVE AnalyzeFrom(_, _, _)
AnalyzeFrom(news, responses, k) ==
    LET first == (k - 1) * BATCH_SIZE + 1
        last == IF k * BATCH_SIZE < Len(news) THEN k * BATCH_SIZE ELSE Len(news)
    IN IF first > Len(news) THEN <<>>
       ELSE analyze_news_batch(SubSeq(news, first, last), responses[k])
               \o AnalyzeFrom(news, responses, k + 1)

HotNews_Strict(analyzed) ==
    SortDesc(SelectSeq(analyzed, LAMBDA n : n.score > HYPE_THRESHOLD))

\* cmd_check, lines 251-252
HotNews(analyzed) ==
    SortDesc(SelectSeq(analyzed, LAMBDA n : n.score >= HYPE_THRESHOLD))

\* the collaborator scores every item of the sub-batch as sc says
ScoredAs(n, sc) ==
    [raised |-> FALSE, data |-> [i \in 1..n |-> ItemData(i - 1, sc[i])]]

\* the collaborator gives every item of the sub-batch one of the scores
ScoredResponses(n, choices) == {ScoredAs(n, sc) : sc \in [1..n -> choices]}

\* scores the collaborator gives in SpecCheck: below, at and above the threshold
CheckScores == {HYPE_THRESHOLD - 1, HYPE_THRESHOLD, HYPE_THRESHOLD + 2}

\* scores the collaborator can put in an entry: nothing checks their range
RawScores == {0, 3, 8, 11}

\* what the collaborator answers in SpecAnalyze for a sub-batch of n items: the
\* call raises; it scores no item; it gives every item the same score; an
\* entry that is no object follows the first score; the index is out of range
AnalyzeResponses(n) ==
    {[raised |-> TRUE, data |-> <<>>], [raised |-> FALSE, data |-> <<>>],
     [raised |-> FALSE, data |-> <<ItemData(0, 8), Garbage>>],
     [raised |-> FALSE, data |-> <<ItemData(n, 8)>>]}
      \cup {ScoredAs(n, [i \in 1..n |-> s]) : s \in RawScores}

\* the check cycle has not been run on its own / has not finished
NoCycle == [news |-> <<>>, responses |-> <<>>]
NotAnalyzed == [done |-> FALSE, analyzed |-> <<>>, hot |-> <<>>, recorded |-> <<>>]

(***************************************************************************)
(* The persisted files as they can be found at start.  The shape of a file *)
(* is "valid", "malformed" (no JSON), "scalar" (a JSON number), "mapping"  *)
(* (a JSON object; for the daily cache, an object whose bucket of today is *)
(* no list of items) or "junk_list" (a JSON list of numbers).              *)
(***************************************************************************)
Shapes == {"valid", "malformed", "scalar", "mapping", "junk_list"}

JunkUid == <<"junk", 0>>
JunkEntry == [uid |-> JunkUid, text |-> NoText, mid |-> 0]
JunkBucket == <<[uid |-> JunkUid, score |-> 0, rec |-> 0]>>

\* scraper.load_seen, lines 42-51, on a file of the given shape: set(data)
\* raises for a number and the except gives set(); for an object it is the set
\* of its keys, for a list of numbers the set of the numbers
load_seen_shape(shape, content) ==
    CASE shape = "valid" -> content
      [] shape \in {"malformed", "scalar"} -> {}
      [] OTHER -> {JunkUid}

\* storage.load_published, lines 20-29: any JSON list is returned as it is,
\* everything else gives []
load_published_shape(shape, content) ==
    CASE shape = "valid" -> content
      [] shape = "junk_list" -> <<JunkEntry>>
      [] OTHER -> <<>>

\* storage.load_daily_cache, lines 102-114: of a JSON object the value under
\* today's key is returned as it is, everything else gives {}
load_daily_shape(shape, content, day) ==
    CASE shape = "valid" ->
            IF \E b \in content : b.day = day
            THEN {CHOOSE b \in content : b.day = day} ELSE {}
      [] shape = "mapping" -> {[day |-> day, items |-> JunkBucket]}
      [] OTHER -> {}

\* _save_to_daily_cache, line 688: item["uid"] raises on a bucket that holds no
\* items
RecordRaises(cache, day) ==
    \E b \in cache : b.day = day /\ b.items = JunkBucket

\* the files have not been loaded on their own
NoFiles == [seen |-> "valid", ledger |-> "valid", daily |-> "valid", drawn |-> FALSE]
NotLoaded == [step |-> "start", seen |-> {}, ledger |-> <<>>, daily |-> {},
              wrote |-> [seen |-> FALSE, ledger |-> FALSE, daily |-> FALSE]]

(***************************************************************************)
(* The daily cache: a dict from day to bucket, here a set of                *)
(* [day, items] records with one record per day key.                       *)
(***************************************************************************)
DIGEST_MIN == 3
DIGEST_MAX == 7

\* day in cache
HasDay(cache, day) == \E b \in cache : b.day = day

\* cache.get(day, [])
Bucket(cache, day) ==
    IF HasDay(cache, day) THEN (CHOOSE b \in cache : b.day = day).items ELSE <<>>

load_daily_cache_KeepsAll(file, day) == file

load_daily_cache_Forgets(file, day) == {}

\* storage.load_daily_cache: only today's bucket of the file, or {}
load_daily_cache(file, day) ==
    IF HasDay(file, day) THEN {[day |-> day, items |-> Bucket(file, day)]} ELSE {}

\* storage.save_daily_cache: the file holds {today: cache.get(today, [])}
save_daily_cache(cache, day) == {[day |-> day, items |-> Bucket(cache, day)]}

RecordItems_NoDedup(bucket, items, day) ==
    bucket \o [i \in 1..Len(items) |->
                 [uid |-> Uid(items[i].url), score |-> items[i].score, rec |-> day]]

\* _save_to_daily_cache, lines 688-699: append the items whose uid the bucket
\* does not hold yet (rec is the day the item was recorded on)
RECURSIVE RecordItems(_, _, _)
RecordItems(bucket, items, day) ==
    IF items = <<>> THEN bucket
    ELSE LET it == Head(items)
             has == \E i \in 1..Len(bucket) : bucket[i].uid = Uid(it.url)
         IN RecordItems(IF has THEN bucket
                        ELSE Append(bucket, [uid |-> Uid(it.url), score |-> it.score,
                                             rec |-> day]),
                        Tail(items), day)

SaveToDaily_KeepsOldDays(cache, items, day) ==
    {b \in cache : b.day # day}
       \cup {[day |-> day, items |-> RecordItems(Bucket(cache, day), items, day)]}

\* _save_to_daily_cache, lines 679-699: drop the other days, add to today's
\* bucket
SaveToDaily(cache, items, day) ==
    LET kept == {b \in cache : b.day = day}
    IN {[day |-> day, items |-> RecordItems(Bucket(kept, day), items, day)]}

Digest_NoUpperBound(cache, day) ==
    SortDesc(SelectSeq(Bucket(cache, day), LAMBDA n : DIGEST_MIN <= n.score))

\* cmd_digest, lines 733-738: today's items with 3 <= hype_score <= 7, sorted by
\* score, highest first
Digest(cache, day) ==
    SortDesc(SelectSeq(Bucket(cache, day),
                       LAMBDA n : DIGEST_MIN <= n.score /\ n.score <= DIGEST_MAX))

\* find_related_post has not been called on its own / has not returned
NoCall == [posts |-> <<>>, answer |-> <<>>, raised |-> FALSE, drawn |-> FALSE]
NotRun == <<"not run", <<>>>>

\* the last MaxCands ledger entries a publish can hand to find_related_post
CandidateEntries ==
    {Entry(ManualUid(1), StoredText, 1), Entry(Uid(1), <<1, 100>>, 2),
     Entry(Uid(2), <<2, 100>>, 3), Entry(ManualUid(4), StoredText, 4)}

CandidateLists ==
    {s \in SeqsUpTo(CandidateEntries, MaxCands) :
        \A i, j \in 1..Len(s) : s[i] = s[j] => i = j}

\* the same, when item 1 was published a second time (message 5)
OfferEntries == CandidateEntries \cup {Entry(Uid(1), <<2, 100>>, 5)}

OfferLists ==
    {s \in SeqsUpTo(OfferEntries, MaxCands) :
        \A i, j \in 1..Len(s) : s[i] = s[j] => i = j}

\* handle_publish, lines 403-412: the message id put into the confirm-reply
\* button for the uid find_related_post returned, <<>> when nothing is offered
OfferedReply(file, related_uid) ==
    IF related_uid = <<>> THEN <<>>
    ELSE LET related == find_post_by_uid(file, related_uid[1])
         IN IF related = <<>> THEN <<>> ELSE <<related[1].mid>>

Reverse(s) == [i \in 1..Len(s) |-> s[Len(s) + 1 - i]]

\* s[a:b] of Python on a 0-based start, for 0 <= a
Slice(s, a, b) == IF a >= Len(s) THEN <<>>
                  ELSE SubSeq(s, a + 1, IF b > Len(s) THEN Len(s) ELSE b)

\* handle_reply_select, lines 538-569: the buttons of one page
ReplyPage(uid, published, page) ==
    LET published_desc == Reverse(published)
        total == Len(published_desc)
        start == page * PAGE_SIZE
        page_posts == Slice(published_desc, start, start + PAGE_SIZE)
    IN IF page_posts = <<>> THEN {}
       ELSE {<<"replypick", uid, page_posts[i].mid>> : i \in 1..Len(page_posts)}
            \cup (IF start + PAGE_SIZE < total
                  THEN {<<"replyselect", uid, page + 1>>} ELSE {})
            \cup {<<"replyclear", uid, 0>>}

\* What the thread-matching collaborator can put in "related_index" for n
\* candidates: <<>> for null, <<i>> for the number i (0-based; -1 and n are out
\* of range).
ResolverAnswers(n) == {<<>>} \cup {<<i>> : i \in (0 - 1)..n}

find_related_post_OneBased(published_posts, answer, raised) ==
    IF published_posts = <<>> \/ raised THEN <<>>
    ELSE IF answer # <<>> /\ 1 <= answer[1] /\ answer[1] <= Len(published_posts)
    THEN <<published_posts[answer[1]].uid>>
    ELSE <<>>

\* find_related_post, lines 172-224: <<uid>> of the chosen candidate, <<>> for
\* None
find_related_post(published_posts, answer, raised) ==
    IF published_posts = <<>> \/ raised THEN <<>>
    ELSE IF answer # <<>> /\ 0 <= answer[1] /\ answer[1] < Len(published_posts)
    THEN <<published_posts[answer[1] + 1].uid>>
    ELSE <<>>

\* _do_publish, lines 444-449: up to the await of the send
EnterSend(rec, post, reply, cand) ==
    [rec EXCEPT !.pc = "send", !.post = post, !.reply = reply,
                !.photo = post_photos[rec.uid], !.cand = cand,
                !.posts = <<>>, !.i = 0, !.deleted_ids = {}]

\* _cleanup_deleted_posts, lines 96-98, and what its caller does with []
CleanupEnter(rec) ==
    LET posts == get_recent_posts(ledger, PROBED_POSTS)
    IN IF posts # <<>>
       THEN [rec EXCEPT !.pc = "probe", !.posts = posts, !.i = 1, !.deleted_ids = {}]
       ELSE IF rec.kind = "publish" THEN EnterSend(rec, rec.post, 0, FALSE)
       ELSE IdleTask

\* cmd_check, lines 230-238: collect_new_news runs without suspending
CmdCheck(mode) ==
    /\ Dispatch(mode)
    /\ HasFree
    /\ \E okv \in [Sources -> BOOLEAN] :
         LET lists == [s \in Sources |-> FetchRss(s, okv[s])]
             news == CollectFrom(lists, load_seen(seenFile), 1)
         IN /\ seenFile' = save_seen(MarkSeen(load_seen(seenFile), news))
            /\ yieldLog' = yieldLog \o [i \in 1..Len(news) |-> Uid(news[i])]
            /\ ingested' = ingested \cup {Uid(news[i]) : i \in 1..Len(news)}
            /\ tasks' = IF news = <<>> THEN tasks
                        ELSE [tasks EXCEPT ![Free] =
                                [IdleTask EXCEPT !.pc = "chk_analyze", !.kind = "check",
                                    !.hot = [i \in 1..Len(news) |->
                                                [url |-> news[i], score |-> 0]]]]
    /\ events' = events + 1
    /\ UNCHANGED <<feeds, cpc, seen, all_news, srcIdx, cycles, fetched,
                   storeAtStart, cycleLog, crashLog, cleared, ledgerVars,
                   news_cache, generated_posts, post_photos, reply_targets,
                   photo_state, editing_state, daily_news_cache, dailyFile, today,
                   dailyOp, buttons, chan, deletedMsgs, updates, transmits, genLog,
                   reconLog, checkLog, lastMsg, resolver_in, resolver_out,
                   analysis_in, analysis_out, load_in, load_out>>

\* scheduled_check, lines 777-784: the timer fires (the owner is known) and
\* collect_new_news runs without suspending
ScheduledCheck(mode) ==
    /\ Dispatch(mode)
    /\ HasFree
    /\ \E okv \in [Sources -> BOOLEAN] :
         LET lists == [s \in Sources |-> FetchRss(s, okv[s])]
             news == CollectFrom(lists, load_seen(seenFile), 1)
         IN /\ seenFile' = save_seen(MarkSeen(load_seen(seenFile), news))
            /\ yieldLog' = yieldLog \o [i \in 1..Len(news) |-> Uid(news[i])]
            /\ ingested' = ingested \cup {Uid(news[i]) : i \in 1..Len(news)}
            /\ tasks' = IF news = <<>> THEN tasks
                        ELSE [tasks EXCEPT ![Free] =
                                [IdleTask EXCEPT !.pc = "chk_analyze", !.kind = "scheduled",
                                    !.hot = [i \in 1..Len(news) |->
                                                [url |-> news[i], score |-> 0]]]]
    /\ events' = events + 1
    /\ UNCHANGED <<feeds, cpc, seen, all_news, srcIdx, cycles, fetched,
                   storeAtStart, cycleLog, crashLog, cleared, ledgerVars,
                   news_cache, generated_posts, post_photos, reply_targets,
                   photo_state, editing_state, daily_news_cache, dailyFile, today,
                   dailyOp, buttons, chan, deletedMsgs, updates, transmits, genLog,
                   reconLog, checkLog, lastMsg, resolver_in, resolver_out,
                   analysis_in, analysis_out, load_in, load_out>>

\* cmd_check, lines 240-264 (scheduled_check, lines 786-803):
\* analyze_news_batch returns, the daily cache is written and the hot items
\* are kept; choices are the scores the collaborator can give
CheckAnalyzeWith(t, choices) ==
    /\ tasks[t].pc = "chk_analyze"
    /\ \E response \in ScoredResponses(Len(tasks[t].hot), choices) :
         LET analyzed == AnalyzeFrom(tasks[t].hot, <<response>>, 1)
             hot_news == HotNews(analyzed)
         IN /\ daily_news_cache' = SaveToDaily(daily_news_cache, analyzed, today)
            /\ dailyFile' = save_daily_cache(daily_news_cache', today)
            /\ dailyOp' = [op |-> "save", items |-> analyzed,
                          before |-> Bucket(daily_news_cache, today), result |-> <<>>]
            /\ tasks' = [tasks EXCEPT ![t] =
                            IF hot_news = <<>> THEN IdleTask
                            ELSE [@ EXCEPT !.pc = "chk_alert", !.hot = hot_news,
                                           !.analyzed = analyzed]]
            /\ checkLog' = IF hot_news = <<>>
                           THEN [done |-> TRUE, ok |-> TRUE, analyzed |-> analyzed,
                                 cached |-> <<>>, alerted |-> <<>>]
                           ELSE checkLog
    /\ UNCHANGED <<ingestVars, ledgerVars, news_cache, generated_posts,
                   post_photos, reply_targets, photo_state, editing_state, today,
                   buttons, chan, deletedMsgs, updates, events, transmits, genLog,
                   reconLog, lastMsg, resolver_in, resolver_out, analysis_in,
                   analysis_out, load_in, load_out>>

\* cmd_check, lines 267-281 (scheduled_check, lines 805-822): one hot item is
\* put in news_cache and alerted
CheckAlert(t) ==
    /\ tasks[t].pc = "chk_alert"
    /\ \E ok \in BOOLEAN :
         LET rec == tasks[t]
             item == Head(rec.hot)
             cached == Append(rec.cached, item)
             alerted == IF ok THEN Append(rec.alerted, item) ELSE rec.alerted
             more == ok /\ Tail(rec.hot) # <<>>
         IN /\ news_cache' = Put(news_cache, Uid(item.url), item.score)
            /\ buttons' = IF ok THEN buttons \cup {<<"generate", Uid(item.url), 0>>}
                          ELSE buttons
            /\ tasks' = [tasks EXCEPT ![t] =
                            IF more
                            THEN [@ EXCEPT !.hot = Tail(rec.hot), !.cached = cached,
                                           !.alerted = alerted]
                            ELSE IdleTask]
            /\ checkLog' = IF more THEN checkLog
                           ELSE [done |-> TRUE, ok |-> ok, analyzed |-> rec.analyzed,
                                 cached |-> cached, alerted |-> alerted]
    /\ UNCHANGED <<ingestVars, ledgerVars, generated_posts, post_photos,
                   reply_targets, photo_state, editing_state, daily_news_cache,
                   dailyFile, today, dailyOp, chan, deletedMsgs, updates, events,
                   transmits, genLog, reconLog, lastMsg, resolver_in, resolver_out,
                   analysis_in, analysis_out, load_in, load_out>>

\* handle_callback "generate"/"regenerate" -> handle_generate, lines 341-349
PressGenerate(mode) ==
    /\ Dispatch(mode)
    /\ HasFree
    /\ \E b \in buttons :
         /\ b[1] \in {"generate", "regenerate"}
         /\ tasks' = IF news_cache[b[2]] = Absent THEN tasks
                     ELSE [tasks EXCEPT ![Free] =
                             [IdleTask EXCEPT !.pc = "gen", !.kind = "generate",
                                              !.uid = b[2]]]
    /\ events' = events + 1
    /\ UNCHANGED <<ingestVars, ledgerVars, news_cache, generated_posts,
                   post_photos, reply_targets, photo_state, editing_state,
                   daily_news_cache, dailyFile, today, dailyOp, buttons, chan,
                   deletedMsgs, updates, transmits, genLog, reconLog, checkLog,
                   lastMsg, resolver_in, resolver_out, analysis_in, analysis_out,
                   load_in, load_out>>

\* handle_generate, lines 361-376: generate_news_post has returned; what it
\* returned is stored as the draft and shown with the keyboard
GenFinish(t) ==
    /\ tasks[t].pc = "gen"
    /\ \E ok \in BOOLEAN, text \in Texts :
         LET post == generate_news_post(ok, text)
         IN /\ generated_posts' = Put(generated_posts, tasks[t].uid, post)
            /\ genLog' = IF ok THEN genLog
                          ELSE Append(genLog, [uid |-> tasks[t].uid,
                                               before |-> generated_posts[tasks[t].uid],
                                               after |-> post])
    /\ buttons' = buttons \cup Keyboard(tasks[t].uid)
    /\ tasks' = [tasks EXCEPT ![t] = IdleTask]
    /\ UNCHANGED <<ingestVars, ledgerVars, news_cache, post_photos, reply_targets,
                   photo_state, editing_state, daily_news_cache, dailyFile, today,
                   dailyOp, chan, deletedMsgs, updates, events, transmits,
                   reconLog, checkLog, lastMsg, resolver_in, resolver_out,
                   analysis_in, analysis_out, load_in, load_out>>

PressPublish_IgnoresTarget(mode) ==
    /\ Dispatch(mode)
    /\ HasFree
    /\ \E b \in buttons :
         /\ b[1] = "publish"
         /\ LET uid == b[2]
                rec == [IdleTask EXCEPT !.kind = "publish", !.uid = uid,
                                        !.post = generated_posts[uid],
                                        !.snap = Snapshot(uid)]
            IN tasks' = IF generated_posts[uid] = NoText THEN tasks
                        ELSE [tasks EXCEPT ![Free] = [rec EXCEPT !.pc = "cleanup"]]
    /\ events' = events + 1
    /\ UNCHANGED <<ingestVars, ledgerVars, news_cache, generated_posts,
                   post_photos, reply_targets, photo_state, editing_state,
                   daily_news_cache, dailyFile, today, dailyOp, buttons, chan,
                   deletedMsgs, updates, transmits, genLog, reconLog, checkLog,
                   lastMsg, resolver_in, resolver_out, analysis_in, analysis_out,
                   load_in, load_out>>

\* handle_callback "publish" -> handle_publish, lines 385-394 (and 433 when a
\* reply target is set)
PressPublish(mode) ==
    /\ Dispatch(mode)
    /\ HasFree
    /\ \E b \in buttons :
         /\ b[1] = "publish"
         /\ LET uid == b[2]
                rec == [IdleTask EXCEPT !.kind = "publish", !.uid = uid,
                                        !.post = generated_posts[uid],
                                        !.snap = Snapshot(uid)]
            IN tasks' = IF generated_posts[uid] = NoText THEN tasks
                        ELSE IF reply_targets[uid] = 0
                        THEN [tasks EXCEPT ![Free] = [rec EXCEPT !.pc = "cleanup"]]
                        ELSE [tasks EXCEPT ![Free] =
                                EnterSend(rec, rec.post, reply_targets[uid], FALSE)]
    /\ events' = events + 1
    /\ UNCHANGED <<ingestVars, ledgerVars, news_cache, generated_posts,
                   post_photos, reply_targets, photo_state, editing_state,
                   daily_news_cache, dailyFile, today, dailyOp, buttons, chan,
                   deletedMsgs, updates, transmits, genLog, reconLog, checkLog,
                   lastMsg, resolver_in, resolver_out, analysis_in, analysis_out,
                   load_in, load_out>>

\* handle_publish, line 395: _cleanup_deleted_posts reads the ledger
CleanupStart(t) ==
    /\ tasks[t].pc = "cleanup"
    /\ tasks' = [tasks EXCEPT ![t] = CleanupEnter(tasks[t])]
    /\ UNCHANGED <<ingestVars, ledgerVars, news_cache, generated_posts,
                   post_photos, reply_targets, photo_state, editing_state,
                   daily_news_cache, dailyFile, today, dailyOp, buttons, chan,
                   deletedMsgs, updates, events, transmits, genLog, reconLog,
                   checkLog, lastMsg, resolver_in, resolver_out, analysis_in,
                   analysis_out, load_in, load_out>>

Probe_ReturnsAll(t) ==
    /\ tasks[t].pc = "probe"
    /\ \E ok \in BOOLEAN :
         LET rec == tasks[t]
             p == rec.posts[rec.i]
             deleted_ids == IF ok THEN rec.deleted_ids
                            ELSE rec.deleted_ids \cup {p.mid}
             published == rec.posts
             last == rec.i = Len(rec.posts)
         IN /\ p.mid \in deletedMsgs => ~ok
            /\ ledger' = IF last /\ deleted_ids # {}
                         THEN remove_posts_by_msg_ids(ledger, deleted_ids)
                         ELSE ledger
            /\ pruned' = (pruned \/ (last /\ MsgIds(ledger) \cap deleted_ids # {}))
            /\ reconLog' = IF last
                            THEN [before |-> rec.posts, failed |-> deleted_ids,
                                  after |-> ledger', returned |-> published]
                            ELSE reconLog
            /\ buttons' = IF last /\ rec.kind = "replyselect"
                          THEN buttons \cup ReplyPage(rec.uid, published, rec.page)
                          ELSE buttons
            /\ tasks' = [tasks EXCEPT ![t] =
                           IF ~last
                           THEN [rec EXCEPT !.i = rec.i + 1, !.deleted_ids = deleted_ids]
                           ELSE IF rec.kind = "replyselect" THEN IdleTask
                           ELSE IF published # <<>>
                           THEN [rec EXCEPT !.pc = "resolve", !.posts = published,
                                            !.i = 0, !.deleted_ids = {}]
                           ELSE EnterSend(rec, rec.post, 0, FALSE)]
    /\ UNCHANGED <<ingestVars, nextMid, appendLog, news_cache, generated_posts,
                   post_photos, reply_targets, photo_state, editing_state,
                   daily_news_cache, dailyFile, today, dailyOp, chan, deletedMsgs,
                   updates, events, transmits, genLog, checkLog, lastMsg,
                   resolver_in, resolver_out, analysis_in, analysis_out, load_in,
                   load_out>>

\* _cleanup_deleted_posts, lines 101-127: one existence probe returns; after the
\* last one the failed entries are removed and the caller goes on
\* (handle_publish, lines 396-402; handle_reply_select, lines 534-584)
Probe(t) ==
    /\ tasks[t].pc = "probe"
    /\ \E ok \in BOOLEAN :
         LET rec == tasks[t]
             p == rec.posts[rec.i]
             deleted_ids == IF ok THEN rec.deleted_ids
                            ELSE rec.deleted_ids \cup {p.mid}
             published == SelectSeq(rec.posts, LAMBDA q : q.mid \notin deleted_ids)
             last == rec.i = Len(rec.posts)
         IN /\ p.mid \in deletedMsgs => ~ok
            /\ ledger' = IF last /\ deleted_ids # {}
                         THEN remove_posts_by_msg_ids(ledger, deleted_ids)
                         ELSE ledger
            /\ pruned' = (pruned \/ (last /\ MsgIds(ledger) \cap deleted_ids # {}))
            /\ reconLog' = IF last
                            THEN [before |-> rec.posts, failed |-> deleted_ids,
                                  after |-> ledger', returned |-> published]
                            ELSE reconLog
            /\ buttons' = IF last /\ rec.kind = "replyselect"
                          THEN buttons \cup ReplyPage(rec.uid, published, rec.page)
                          ELSE buttons
            /\ tasks' = [tasks EXCEPT ![t] =
                           IF ~last
                           THEN [rec EXCEPT !.i = rec.i + 1, !.deleted_ids = deleted_ids]
                           ELSE IF rec.kind = "replyselect" THEN IdleTask
                           ELSE IF published # <<>>
                           THEN [rec EXCEPT !.pc = "resolve", !.posts = published,
                                            !.i = 0, !.deleted_ids = {}]
                           ELSE EnterSend(rec, rec.post, 0, FALSE)]
    /\ UNCHANGED <<ingestVars, nextMid, appendLog, news_cache, generated_posts,
                   post_photos, reply_targets, photo_state, editing_state,
                   daily_news_cache, dailyFile, today, dailyOp, chan, deletedMsgs,
                   updates, events, transmits, genLog, checkLog, lastMsg,
                   resolver_in, resolver_out, analysis_in, analysis_out, load_in,
                   load_out>>

Resolve_AbortsOnNone(t) ==
    /\ tasks[t].pc = "resolve"
    /\ \E raised \in BOOLEAN, answer \in ResolverAnswers(Len(tasks[t].posts)) :
         LET rec == tasks[t]
             related_uid == find_related_post(rec.posts, answer, raised)
             related == IF related_uid = <<>> THEN <<>>
                        ELSE find_post_by_uid(ledger, related_uid[1])
         IN /\ buttons' = IF related # <<>>
                          THEN buttons \cup {<<"confirmreply", rec.uid, related[1].mid>>,
                                             <<"publishnow", rec.uid, 0>>,
                                             <<"replyselect", rec.uid, 0>>}
                          ELSE buttons
            /\ tasks' = [tasks EXCEPT ![t] =
                           IF related # <<>> \/ raised THEN IdleTask
                           ELSE [EnterSend(rec, rec.post, 0, related_uid # <<>>)
                                    EXCEPT !.resolved = IF related_uid = <<>> THEN "none"
                                                        ELSE "candidate"]]
    /\ UNCHANGED <<ingestVars, ledgerVars, news_cache, generated_posts,
                   post_photos, reply_targets, photo_state, editing_state,
                   daily_news_cache, dailyFile, today, dailyOp, chan, deletedMsgs,
                   updates, events, transmits, genLog, reconLog, checkLog, lastMsg,
                   resolver_in, resolver_out, analysis_in, analysis_out, load_in,
                   load_out>>

\* handle_publish, lines 398-433: find_related_post has returned (the
\* collaborator answered with an index or null, or the call raised)
Resolve(t) ==
    /\ tasks[t].pc = "resolve"
    /\ \E raised \in BOOLEAN, answer \in ResolverAnswers(Len(tasks[t].posts)) :
         LET rec == tasks[t]
             related_uid == find_related_post(rec.posts, answer, raised)
             related == IF related_uid = <<>> THEN <<>>
                        ELSE find_post_by_uid(ledger, related_uid[1])
         IN /\ buttons' = IF related # <<>>
                          THEN buttons \cup {<<"confirmreply", rec.uid, related[1].mid>>,
                                             <<"publishnow", rec.uid, 0>>,
                                             <<"replyselect", rec.uid, 0>>}
                          ELSE buttons
            /\ tasks' = [tasks EXCEPT ![t] =
                           IF related # <<>> THEN IdleTask
                           ELSE [EnterSend(rec, rec.post, 0, related_uid # <<>>)
                                    EXCEPT !.resolved = IF related_uid = <<>> THEN "none"
                                                        ELSE "candidate"]]
    /\ UNCHANGED <<ingestVars, ledgerVars, news_cache, generated_posts,
                   post_photos, reply_targets, photo_state, editing_state,
                   daily_news_cache, dailyFile, today, dailyOp, chan, deletedMsgs,
                   updates, events, transmits, genLog, reconLog, checkLog, lastMsg,
                   resolver_in, resolver_out, analysis_in, analysis_out, load_in,
                   load_out>>

\* _do_publish, lines 449-464: the channel accepts the post and gives it a
\* message id, or the send raises
SendOutcome(t) ==
    /\ tasks[t].pc = "send"
    /\ \E ok \in BOOLEAN :
         LET rec == tasks[t]
         IN /\ (rec.reply # 0 /\ rec.reply \in deletedMsgs) => ~ok
            /\ chan' = IF ok
                       THEN Append(chan, [text |-> IF rec.photo # 0 THEN Caption(rec.post)
                                                   ELSE rec.post,
                                          reply |-> rec.reply, photo |-> rec.photo,
                                          by |-> "bot"])
                       ELSE chan
            /\ nextMid' = IF ok THEN nextMid + 1 ELSE nextMid
            /\ updates' = IF ok THEN updates \cup {nextMid} ELSE updates
            /\ transmits' = IF ok
                            THEN Append(transmits,
                                        [uid |-> rec.uid, post |-> rec.post,
                                         reply |-> rec.reply, mid |-> nextMid,
                                         kind |-> rec.kind, cand |-> rec.cand,
                                         resolved |-> rec.resolved])
                            ELSE transmits
            /\ tasks' = [tasks EXCEPT ![t] =
                           IF ok THEN [rec EXCEPT !.pc = "sent", !.msg = nextMid]
                           ELSE [rec EXCEPT !.pc = "failed"]]
    /\ UNCHANGED <<ingestVars, ledger, appendLog, pruned, news_cache,
                   generated_posts, post_photos, reply_targets, photo_state,
                   editing_state, daily_news_cache, dailyFile, today, dailyOp,
                   buttons, deletedMsgs, events, genLog, reconLog, checkLog,
                   lastMsg, resolver_in, resolver_out, analysis_in, analysis_out,
                   load_in, load_out>>

PublishRecord_KeepsTarget(t) ==
    /\ tasks[t].pc = "sent"
    /\ ledger' = add_published(ledger, tasks[t].uid, tasks[t].post, tasks[t].msg)
    /\ appendLog' = Append(appendLog, Entry(tasks[t].uid, tasks[t].post, tasks[t].msg))
    /\ tasks' = [tasks EXCEPT ![t] = IdleTask]
    /\ UNCHANGED <<ingestVars, nextMid, pruned, news_cache, generated_posts,
                   post_photos, reply_targets, photo_state, editing_state,
                   daily_news_cache, dailyFile, today, dailyOp, buttons, chan,
                   deletedMsgs, updates, events, transmits, genLog, reconLog,
                   checkLog, lastMsg, resolver_in, resolver_out, analysis_in,
                   analysis_out, load_in, load_out>>

\* _do_publish, lines 466-481: the send returned; the ledger entry is written
\* and the reply target cleared
PublishRecord(t) ==
    /\ tasks[t].pc = "sent"
    /\ ledger' = add_published(ledger, tasks[t].uid, tasks[t].post, tasks[t].msg)
    /\ appendLog' = Append(appendLog, Entry(tasks[t].uid, tasks[t].post, tasks[t].msg))
    /\ reply_targets' = Put(reply_targets, tasks[t].uid, 0)
    /\ tasks' = [tasks EXCEPT ![t] = IdleTask]
    /\ UNCHANGED <<ingestVars, nextMid, pruned, news_cache, generated_posts,
                   post_photos, photo_state, editing_state, daily_news_cache,
                   dailyFile, today, dailyOp, buttons, chan, deletedMsgs, updates,
                   events, transmits, genLog, reconLog, checkLog, lastMsg,
                   resolver_in, resolver_out, analysis_in, analysis_out, load_in,
                   load_out>>

\* _do_publish, lines 483-485: the error has been reported to the operator
FailReport(t) ==
    /\ tasks[t].pc = "failed"
    /\ tasks' = [tasks EXCEPT ![t] = IdleTask]
    /\ UNCHANGED <<ingestVars, ledgerVars, news_cache, generated_posts,
                   post_photos, reply_targets, photo_state, editing_state,
                   daily_news_cache, dailyFile, today, dailyOp, buttons, chan,
                   deletedMsgs, updates, events, transmits, genLog, reconLog,
                   checkLog, lastMsg, resolver_in, resolver_out, analysis_in,
                   analysis_out, load_in, load_out>>

\* handle_callback "confirmreply", lines 316-323
PressConfirmReply(mode) ==
    /\ Dispatch(mode)
    /\ HasFree
    /\ \E b \in buttons :
         /\ b[1] = "confirmreply"
         /\ LET uid == b[2]
                rec == [IdleTask EXCEPT !.kind = "confirmreply", !.uid = uid,
                                        !.snap = Snapshot(uid)]
            IN /\ reply_targets' = Put(reply_targets, uid, b[3])
               /\ tasks' = IF generated_posts[uid] = NoText THEN tasks
                           ELSE [tasks EXCEPT ![Free] =
                                   EnterSend(rec, generated_posts[uid], b[3], FALSE)]
    /\ events' = events + 1
    /\ UNCHANGED <<ingestVars, ledgerVars, news_cache, generated_posts,
                   post_photos, photo_state, editing_state, daily_news_cache,
                   dailyFile, today, dailyOp, buttons, chan, deletedMsgs, updates,
                   transmits, genLog, reconLog, checkLog, lastMsg, resolver_in,
                   resolver_out, analysis_in, analysis_out, load_in, load_out>>

\* handle_callback "publishnow", lines 331-336
PressPublishNow(mode) ==
    /\ Dispatch(mode)
    /\ HasFree
    /\ \E b \in buttons :
         /\ b[1] = "publishnow"
         /\ LET uid == b[2]
                rec == [IdleTask EXCEPT !.kind = "publishnow", !.uid = uid,
                                        !.snap = Snapshot(uid)]
            IN tasks' = IF generated_posts[uid] = NoText THEN tasks
                        ELSE [tasks EXCEPT ![Free] =
                                EnterSend(rec, generated_posts[uid], 0, FALSE)]
    /\ events' = events + 1
    /\ UNCHANGED <<ingestVars, ledgerVars, news_cache, generated_posts,
                   post_photos, reply_targets, photo_state, editing_state,
                   daily_news_cache, dailyFile, today, dailyOp, buttons, chan,
                   deletedMsgs, updates, transmits, genLog, reconLog, checkLog,
                   lastMsg, resolver_in, resolver_out, analysis_in, analysis_out,
                   load_in, load_out>>

\* handle_callback "replyselect" -> handle_reply_select, lines 533-536
PressReplySelect(mode) ==
    /\ Dispatch(mode)
    /\ HasFree
    /\ \E b \in buttons :
         /\ b[1] = "replyselect"
         /\ tasks' = [tasks EXCEPT ![Free] =
                        CleanupEnter([IdleTask EXCEPT !.kind = "replyselect",
                                                      !.uid = b[2], !.page = b[3]])]
    /\ events' = events + 1
    /\ UNCHANGED <<ingestVars, ledgerVars, news_cache, generated_posts,
                   post_photos, reply_targets, photo_state, editing_state,
                   daily_news_cache, dailyFile, today, dailyOp, buttons, chan,
                   deletedMsgs, updates, transmits, genLog, reconLog, checkLog,
                   lastMsg, resolver_in, resolver_out, analysis_in, analysis_out,
                   load_in, load_out>>

\* handle_callback "replypick" -> handle_reply_pick
PressReplyPick(mode) ==
    /\ Dispatch(mode)
    /\ \E b \in buttons :
         /\ b[1] = "replypick"
         /\ reply_targets' = Put(reply_targets, b[2], b[3])
         /\ buttons' = buttons \cup Keyboard(b[2])
    /\ events' = events + 1
    /\ UNCHANGED <<ingestVars, ledgerVars, news_cache, generated_posts,
                   post_photos, photo_state, editing_state, daily_news_cache,
                   dailyFile, today, dailyOp, chan, deletedMsgs, updates, tasks,
                   transmits, genLog, reconLog, checkLog, lastMsg, resolver_in,
                   resolver_out, analysis_in, analysis_out, load_in, load_out>>

\* handle_callback "replyclear" -> handle_reply_clear
PressReplyClear(mode) ==
    /\ Dispatch(mode)
    /\ \E b \in buttons :
         /\ b[1] = "replyclear"
         /\ reply_targets' = Put(reply_targets, b[2], 0)
         /\ buttons' = buttons \cup Keyboard(b[2])
    /\ events' = events + 1
    /\ UNCHANGED <<ingestVars, ledgerVars, news_cache, generated_posts,
                   post_photos, photo_state, editing_state, daily_news_cache,
                   dailyFile, today, dailyOp, chan, deletedMsgs, updates, tasks,
                   transmits, genLog, reconLog, checkLog, lastMsg, resolver_in,
                   resolver_out, analysis_in, analysis_out, load_in, load_out>>

\* handle_callback "edit" -> handle_edit
PressEdit(mode) ==
    /\ Dispatch(mode)
    /\ \E b \in buttons, chat \in Chats :
         /\ b[1] = "edit"
         /\ editing_state' = IF generated_posts[b[2]] = NoText THEN editing_state
                             ELSE Put(editing_state, chat, b[2])
    /\ events' = events + 1
    /\ UNCHANGED <<ingestVars, ledgerVars, news_cache, generated_posts,
                   post_photos, reply_targets, photo_state, daily_news_cache,
                   dailyFile, today, dailyOp, buttons, chan, deletedMsgs, updates,
                   tasks, transmits, genLog, reconLog, checkLog, lastMsg,
                   resolver_in, resolver_out, analysis_in, analysis_out, load_in,
                   load_out>>

\* handle_callback "photo" -> handle_photo_request
PressPhoto(mode) ==
    /\ Dispatch(mode)
    /\ \E b \in buttons, chat \in Chats :
         /\ b[1] = "photo"
         /\ photo_state' = IF generated_posts[b[2]] = NoText THEN photo_state
                           ELSE Put(photo_state, chat, b[2])
    /\ events' = events + 1
    /\ UNCHANGED <<ingestVars, ledgerVars, news_cache, generated_posts,
                   post_photos, reply_targets, editing_state, daily_news_cache,
                   dailyFile, today, dailyOp, buttons, chan, deletedMsgs, updates,
                   tasks, transmits, genLog, reconLog, checkLog, lastMsg,
                   resolver_in, resolver_out, analysis_in, analysis_out, load_in,
                   load_out>>

\* a photo arrives: handle_photo_message
PhotoMessage(mode) ==
    /\ Dispatch(mode)
    /\ \E chat \in Chats, file_id \in Files :
         LET out == handle_photo_message(chat, file_id)
         IN /\ photo_state' = out.photo_state
            /\ post_photos' = out.post_photos
            /\ buttons' = out.buttons
    /\ events' = events + 1
    /\ UNCHANGED <<ingestVars, ledgerVars, news_cache, generated_posts,
                   reply_targets, editing_state, daily_news_cache, dailyFile,
                   today, dailyOp, chan, deletedMsgs, updates, tasks, transmits,
                   genLog, reconLog, checkLog, lastMsg, resolver_in, resolver_out,
                   analysis_in, analysis_out, load_in, load_out>>

\* a text that is no command arrives: handle_text_message
TextMessage(mode) ==
    /\ Dispatch(mode)
    /\ \E chat \in Chats, new_text \in Texts :
         LET out == handle_text_message(chat, new_text)
         IN /\ photo_state' = out.photo_state
            /\ editing_state' = out.editing_state
            /\ generated_posts' = out.generated_posts
            /\ buttons' = out.buttons
    /\ events' = events + 1
    /\ UNCHANGED <<ingestVars, ledgerVars, news_cache, post_photos, reply_targets,
                   daily_news_cache, dailyFile, today, dailyOp, chan, deletedMsgs,
                   updates, tasks, transmits, genLog, reconLog, checkLog, lastMsg,
                   resolver_in, resolver_out, analysis_in, analysis_out, load_in,
                   load_out>>

\* Any private message arrives and is routed as create_bot registered the
\* handlers; what arrived is kept in lastMsg.
OperatorMessage(mode) ==
    /\ Dispatch(mode)
    /\ \E chat \in Chats, msg \in Messages :
         LET to == Route(msg.kind)
             photo == handle_photo_message(chat, msg.file)
             text == handle_text_message(chat, msg.text)
         IN /\ photo_state' = CASE to = "handle_photo_message" -> photo.photo_state
                                [] to = "handle_text_message" -> text.photo_state
                                [] OTHER -> photo_state
            /\ post_photos' = IF to = "handle_photo_message" THEN photo.post_photos
                              ELSE post_photos
            /\ editing_state' = IF to = "handle_text_message" THEN text.editing_state
                                ELSE editing_state
            /\ generated_posts' = IF to = "handle_text_message"
                                  THEN text.generated_posts ELSE generated_posts
            /\ buttons' = CASE to = "handle_photo_message" -> photo.buttons
                            [] to = "handle_text_message" -> text.buttons
                            [] OTHER -> buttons
            /\ lastMsg' = [n |-> events + 1, chat |-> chat, kind |-> msg.kind,
                           text |-> msg.text, file |-> msg.file]
    /\ events' = events + 1
    /\ UNCHANGED <<ingestVars, ledgerVars, news_cache, reply_targets,
                   daily_news_cache, dailyFile, today, dailyOp, chan, deletedMsgs,
                   updates, tasks, transmits, genLog, reconLog, checkLog,
                   resolver_in, resolver_out, analysis_in, analysis_out, load_in,
                   load_out>>

\* handle_channel_post: a channel_post update is dispatched
ChannelPost(mode) ==
    /\ Sequential(mode) => AllIdle
    /\ \E m \in updates :
         LET existing == load_published(ledger)
             fresh == m \notin MsgIds(existing)
         IN /\ updates' = updates \ {m}
            /\ ledger' = IF fresh
                         THEN add_published(ledger, ManualUid(m), chan[m].text, m)
                         ELSE ledger
            /\ appendLog' = IF fresh
                            THEN Append(appendLog, Entry(ManualUid(m), chan[m].text, m))
                            ELSE appendLog
    /\ UNCHANGED <<ingestVars, nextMid, pruned, news_cache, generated_posts,
                   post_photos, reply_targets, photo_state, editing_state,
                   daily_news_cache, dailyFile, today, dailyOp, buttons, chan,
                   deletedMsgs, tasks, events, transmits, genLog, reconLog,
                   checkLog, lastMsg, resolver_in, resolver_out, analysis_in,
                   analysis_out, load_in, load_out>>

\* Somebody posts in the channel by hand.
ManualPost(mode) ==
    /\ events < Budget(mode)
    /\ chan' = Append(chan, [text |-> StoredText, reply |-> 0, photo |-> 0,
                             by |-> "human"])
    /\ updates' = updates \cup {nextMid}
    /\ nextMid' = nextMid + 1
    /\ events' = events + 1
    /\ UNCHANGED <<ingestVars, ledger, appendLog, pruned, news_cache,
                   generated_posts, post_photos, reply_targets, photo_state,
                   editing_state, daily_news_cache, dailyFile, today, dailyOp,
                   buttons, deletedMsgs, tasks, transmits, genLog, reconLog,
                   checkLog, lastMsg, resolver_in, resolver_out, analysis_in,
                   analysis_out, load_in, load_out>>

\* Somebody deletes a channel message out of band.
ChannelDelete(mode) ==
    /\ events < Budget(mode)
    /\ \E m \in (1..Len(chan)) \ deletedMsgs :
         deletedMsgs' = deletedMsgs \cup {m}
    /\ events' = events + 1
    /\ UNCHANGED <<ingestVars, ledgerVars, news_cache, generated_posts,
                   post_photos, reply_targets, photo_state, editing_state,
                   daily_news_cache, dailyFile, today, dailyOp, buttons, chan,
                   updates, tasks, transmits, genLog, reconLog, checkLog, lastMsg,
                   resolver_in, resolver_out, analysis_in, analysis_out, load_in,
                   load_out>>

\* _save_to_daily_cache called with a batch of scored items
DailyRecord ==
    /\ \E items \in SeqsUpTo(DailyItems, MaxBatch) :
         /\ daily_news_cache' = SaveToDaily(daily_news_cache, items, today)
         /\ dailyFile' = save_daily_cache(daily_news_cache', today)
         /\ dailyOp' = [op |-> "save", items |-> items,
                       before |-> Bucket(daily_news_cache, today), result |-> <<>>]
    /\ UNCHANGED <<ingestVars, ledgerVars, news_cache, generated_posts,
                   post_photos, reply_targets, photo_state, editing_state, today,
                   buttons, chan, deletedMsgs, updates, tasks, events, transmits,
                   genLog, reconLog, checkLog, lastMsg, resolver_in, resolver_out,
                   analysis_in, analysis_out, load_in, load_out>>

\* cmd_digest, lines 731-770: the query, then one alert per item until a send
\* raises
CmdDigest ==
    /\ LET medium_news == Digest(daily_news_cache, today)
       IN /\ dailyOp' = [op |-> "digest", items |-> <<>>,
                         before |-> Bucket(daily_news_cache, today),
                         result |-> medium_news]
          /\ \E header \in BOOLEAN, sent \in 0..Len(medium_news) :
                LET cached == IF ~header THEN 0
                              ELSE IF sent < Len(medium_news) THEN sent + 1 ELSE sent
                    shown == IF header THEN sent ELSE 0
                IN /\ news_cache' = [u \in WUids |->
                                       IF \E i \in 1..cached : medium_news[i].uid = u
                                       THEN (CHOOSE n \in Range(medium_news) : n.uid = u).score
                                       ELSE news_cache[u]]
                   /\ buttons' = buttons \cup {<<"generate", medium_news[i].uid, 0>> :
                                                  i \in 1..shown}
    /\ UNCHANGED <<ingestVars, ledgerVars, generated_posts, post_photos,
                   reply_targets, photo_state, editing_state, daily_news_cache,
                   dailyFile, today, chan, deletedMsgs, updates, tasks, events,
                   transmits, genLog, reconLog, checkLog, lastMsg, resolver_in,
                   resolver_out, analysis_in, analysis_out, load_in, load_out>>

\* Midnight passes.
Tick ==
    /\ today < 1 + MaxDays
    /\ today' = today + 1
    /\ dailyOp' = [op |-> "tick", items |-> <<>>, before |-> <<>>, result |-> <<>>]
    /\ UNCHANGED <<ingestVars, ledgerVars, news_cache, generated_posts,
                   post_photos, reply_targets, photo_state, editing_state,
                   daily_news_cache, dailyFile, buttons, chan, deletedMsgs,
                   updates, tasks, events, transmits, genLog, reconLog, checkLog,
                   lastMsg, resolver_in, resolver_out, analysis_in, analysis_out,
                   load_in, load_out>>

\* The process is restarted: bot.py, lines 55-67, run again; the files and the
\* messages already sent to the operator stay.
Restart ==
    /\ news_cache' = [u \in WUids |-> Absent]
    /\ generated_posts' = [u \in WUids |-> NoText]
    /\ post_photos' = [u \in WUids |-> 0]
    /\ reply_targets' = [u \in WUids |-> 0]
    /\ photo_state' = [c \in Chats |-> NoUid]
    /\ editing_state' = [c \in Chats |-> NoUid]
    /\ tasks' = [t \in Tasks |-> IdleTask]
    /\ daily_news_cache' = load_daily_cache(dailyFile, today)
    /\ dailyOp' = [op |-> "load", items |-> <<>>, before |-> <<>>, result |-> <<>>]
    /\ UNCHANGED <<ingestVars, ledgerVars, dailyFile, today, buttons, chan,
                   deletedMsgs, updates, events, transmits, genLog, reconLog,
                   checkLog, lastMsg, resolver_in, resolver_out, analysis_in,
                   analysis_out, load_in, load_out>>

\* find_related_post is called on the arguments drawn at the start
ResolveCall ==
    /\ resolver_out = NotRun
    /\ resolver_in # NoCall
    /\ resolver_out' = <<"returned", find_related_post(resolver_in.posts, resolver_in.answer,
                                                       resolver_in.raised)>>
    /\ UNCHANGED <<ingestVars, ledgerVars, news_cache, generated_posts,
                   post_photos, reply_targets, photo_state, editing_state,
                   daily_news_cache, dailyFile, today, dailyOp, buttons, chan,
                   deletedMsgs, updates, tasks, events, transmits, genLog,
                   reconLog, checkLog, lastMsg, resolver_in, analysis_in,
                   analysis_out, load_in, load_out>>

\* cmd_check, lines 240-252, called on the news and the responses drawn at the
\* start: the sub-batches are analysed, everything is recorded for the day and
\* the hot items are picked
AnalyzeCycle ==
    /\ ~analysis_out.done
    /\ analysis_in # NoCycle
    /\ LET analyzed == AnalyzeFrom(analysis_in.news, analysis_in.responses, 1)
       IN analysis_out' = [done |-> TRUE, analyzed |-> analyzed,
                           hot |-> HotNews(analyzed),
                           recorded |-> RecordItems(<<>>, analyzed, 1)]
    /\ UNCHANGED <<ingestVars, ledgerVars, news_cache, generated_posts,
                   post_photos, reply_targets, photo_state, editing_state,
                   daily_news_cache, dailyFile, today, dailyOp, buttons, chan,
                   deletedMsgs, updates, tasks, events, transmits, genLog,
                   reconLog, checkLog, lastMsg, resolver_in, resolver_out,
                   analysis_in, load_in, load_out>>

\* handle_publish after find_related_post returned: the ledger is the list the
\* reconciliation just returned.
OfferCall ==
    /\ resolver_out[1] = "returned"
    /\ resolver_out' = <<"offered", resolver_out[2],
                         OfferedReply(resolver_in.posts, resolver_out[2])>>
    /\ UNCHANGED <<ingestVars, ledgerVars, news_cache, generated_posts,
                   post_photos, reply_targets, photo_state, editing_state,
                   daily_news_cache, dailyFile, today, dailyOp, buttons, chan,
                   deletedMsgs, updates, tasks, events, transmits, genLog,
                   reconLog, checkLog, lastMsg, resolver_in, analysis_in,
                   analysis_out, load_in, load_out>>

\* The three files are loaded: load_seen, load_published, load_daily_cache.
LoadStores ==
    /\ load_in.drawn
    /\ load_out.step = "start"
    /\ load_out' = [load_out EXCEPT
                      !.step = "loaded",
                      !.seen = load_seen_shape(load_in.seen, {Uid(1)}),
                      !.ledger = load_published_shape(load_in.ledger, StoredLedger(1)),
                      !.daily = load_daily_shape(load_in.daily,
                                   {[day |-> today,
                                     items |-> <<[uid |-> Uid(1), score |-> DIGEST_MIN,
                                                  rec |-> today]>>]}, today)]
    /\ UNCHANGED <<ingestVars, ledgerVars, news_cache, generated_posts,
                   post_photos, reply_targets, photo_state, editing_state,
                   daily_news_cache, dailyFile, today, dailyOp, buttons, chan,
                   deletedMsgs, updates, tasks, events, transmits, genLog,
                   reconLog, checkLog, lastMsg, resolver_in, resolver_out,
                   analysis_in, analysis_out, load_in>>

\* One write per store after the load: collect_new_news marks and saves a new
\* uid, add_published appends a post, _save_to_daily_cache records an item.
WriteStores ==
    /\ load_out.step = "loaded"
    /\ load_out' = [load_out EXCEPT
                      !.step = "written",
                      !.seen = save_seen(MarkSeen(load_out.seen, <<2>>)),
                      !.ledger = add_published(load_out.ledger, Uid(2), <<1, 100>>, 9),
                      !.daily = IF RecordRaises(load_out.daily, today) THEN load_out.daily
                                ELSE SaveToDaily(load_out.daily,
                                                 <<[url |-> 2, score |-> DIGEST_MAX]>>,
                                                 today),
                      !.wrote = [seen |-> TRUE, ledger |-> TRUE,
                                 daily |-> ~RecordRaises(load_out.daily, today)]]
    /\ UNCHANGED <<ingestVars, ledgerVars, news_cache, generated_posts,
                   post_photos, reply_targets, photo_state, editing_state,
                   daily_news_cache, dailyFile, today, dailyOp, buttons, chan,
                   deletedMsgs, updates, tasks, events, transmits, genLog,
                   reconLog, checkLog, lastMsg, resolver_in, resolver_out,
                   analysis_in, analysis_out, load_in>>

(***************************************************************************)
(* Initial states and specifications.                                      *)
(***************************************************************************)
IngestInit(files) ==
    /\ seenFile \in files
    /\ cpc = "idle"
    /\ seen = {}
    /\ all_news = <<>>
    /\ srcIdx = 1
    /\ cycles = 0
    /\ fetched = <<>>
    /\ storeAtStart = seenFile
    /\ ingested = seenFile
    /\ yieldLog = <<>>
    /\ cycleLog = <<>>
    /\ crashLog = <<>>
    /\ cleared = FALSE

\* The ledger file and the channel hold the posts captured by earlier runs.
LedgerInit(sizes) ==
    /\ \E n \in sizes :
         /\ ledger = StoredLedger(n)
         /\ appendLog = StoredLedger(n)
         /\ nextMid = n + 1
         /\ chan = [i \in 1..n |-> [text |-> StoredText, reply |-> 0, photo |-> 0,
                                    by |-> "human"]]
    /\ pruned = FALSE

\* bot.py, lines 55-67: the module-level stores of a fresh process
WorkspaceStores ==
    /\ news_cache = [u \in WUids |-> Absent]
    /\ generated_posts = [u \in WUids |-> NoText]
    /\ post_photos = [u \in WUids |-> 0]
    /\ reply_targets = [u \in WUids |-> 0]
    /\ photo_state = [c \in Chats |-> NoUid]
    /\ editing_state = [c \in Chats |-> NoUid]
    /\ buttons = {}
    /\ deletedMsgs = {}
    /\ updates = {}
    /\ tasks = [t \in Tasks |-> IdleTask]
    /\ events = 0
    /\ transmits = <<>>
    /\ genLog = <<>>
    /\ reconLog = NoRecon
    /\ checkLog = NoCheck
    /\ lastMsg = NoMsg

\* bot.py, line 67: daily_news_cache = load_daily_cache() on the day of start
DailyInit(files, days) ==
    /\ today \in days
    /\ dailyFile \in files
    /\ daily_news_cache = load_daily_cache(dailyFile, today)
    /\ dailyOp = [op |-> "load", items |-> <<>>, before |-> <<>>, result |-> <<>>]

\* find_related_post is not called on its own
ResolverIdle ==
    /\ resolver_in = NoCall
    /\ resolver_out = NotRun

\* the analysis of a check cycle is not run on its own, nor the loads
AnalysisIdle ==
    /\ analysis_in = NoCycle
    /\ analysis_out = NotAnalyzed

LoadIdle ==
    /\ load_in = NoFiles
    /\ load_out = NotLoaded

WorkspaceInit ==
    /\ WorkspaceStores
    /\ DailyInit({{}}, {1})
    /\ ResolverIdle
    /\ AnalysisIdle
    /\ LoadIdle

InitIngest ==
    /\ IngestInit({{}, {Uid(1)}})
    /\ feeds = [s \in Sources |-> <<>>]
    /\ LedgerInit({0})
    /\ WorkspaceInit

InitLedger ==
    /\ IngestInit({{}})
    /\ feeds = [s \in Sources |-> <<>>]
    /\ LedgerInit((MAX_PUBLISHED - MaxRoom)..MAX_PUBLISHED)
    /\ WorkspaceInit

Init ==
    /\ IngestInit({{}})
    /\ feeds = WorkflowFeeds
    /\ LedgerInit(0..MaxStored)
    /\ WorkspaceInit

\* The calls the offer of a reply is checked on.
InitOffer ==
    /\ IngestInit({{}})
    /\ feeds = [s \in Sources |-> <<>>]
    /\ LedgerInit({0})
    /\ WorkspaceStores
    /\ DailyInit({{}}, {1})
    /\ resolver_in \in [posts : OfferLists, answer : ResolverAnswers(MaxCands),
                        raised : BOOLEAN, drawn : {TRUE}]
    /\ resolver_out = NotRun
    /\ AnalysisIdle
    /\ LoadIdle

\* The calls find_related_post is checked on.
InitResolve ==
    /\ IngestInit({{}})
    /\ feeds = [s \in Sources |-> <<>>]
    /\ LedgerInit({0})
    /\ WorkspaceStores
    /\ DailyInit({{}}, {1})
    /\ resolver_in \in [posts : CandidateLists, answer : ResolverAnswers(MaxCands),
                        raised : BOOLEAN, drawn : {TRUE}]
    /\ resolver_out = NotRun
    /\ AnalysisIdle
    /\ LoadIdle

\* Nothing is stored, the sources have published nothing or one article each.
InitCheck ==
    /\ IngestInit({{}})
    /\ feeds \in {[s \in Sources |-> <<>>], [s \in Sources |-> <<s>>]}
    /\ LedgerInit({0})
    /\ WorkspaceInit

\* daily_cache.json as an earlier run left it
StoredDaily ==
    {{}} \cup {{[day |-> d, items |-> <<[uid |-> Uid(1), score |-> DIGEST_MAX, rec |-> d]>>]} :
                d \in 1..2}

\* daily_cache.json as a run of yesterday or of today left it
StoredBefore ==
    {{}} \cup {{[day |-> d, items |-> <<[uid |-> Uid(1), score |-> DIGEST_MAX, rec |-> d]>>]} :
                d \in 0..1}

\* The process starts on files that earlier runs may have written.
InitRestart ==
    /\ IngestInit({{}, {Uid(1)}})
    /\ feeds \in {[s \in Sources |-> <<>>], [s \in Sources |-> <<s>>]}
    /\ LedgerInit({0, 1})
    /\ WorkspaceStores
    /\ DailyInit(StoredBefore, {1})
    /\ ResolverIdle
    /\ AnalysisIdle
    /\ LoadIdle

\* The check cycles whose analysis is run: more items than one sub-batch holds.
InitAnalyze ==
    /\ IngestInit({{}})
    /\ feeds = [s \in Sources |-> <<>>]
    /\ LedgerInit({0})
    /\ WorkspaceStores
    /\ DailyInit({{}}, {1})
    /\ ResolverIdle
    /\ \E n \in (BATCH_SIZE + 1)..(BATCH_SIZE + MaxOver) :
         \E first \in AnalyzeResponses(BATCH_SIZE),
            second \in AnalyzeResponses(n - BATCH_SIZE) :
            analysis_in = [news |-> [i \in 1..n |-> [url |-> i, score |-> 0]],
                           responses |-> <<first, second>>]
    /\ analysis_out = NotAnalyzed
    /\ LoadIdle

\* The three files are found in any combination of shapes.
InitLoad ==
    /\ IngestInit({{}})
    /\ feeds = [s \in Sources |-> <<>>]
    /\ LedgerInit({0})
    /\ WorkspaceStores
    /\ DailyInit({{}}, {1})
    /\ ResolverIdle
    /\ AnalysisIdle
    /\ load_in \in [seen : Shapes, ledger : Shapes, daily : Shapes, drawn : {TRUE}]
    /\ load_out = NotLoaded

InitDaily ==
    /\ IngestInit({{}})
    /\ feeds = [s \in Sources |-> <<>>]
    /\ LedgerInit({0})
    /\ WorkspaceStores
    /\ DailyInit(StoredDaily, {1})
    /\ ResolverIdle
    /\ AnalysisIdle
    /\ LoadIdle

NextIngest ==
    \/ CollectStart
    \/ CollectSource
    \/ CollectMark
    \/ CollectSave
    \/ CollectReturn
    \/ Crash
    \/ ClearSeen
    \/ FeedPost

NextLedger ==
    \/ AppendOp
    \/ RemoveOp

\* analyze_news_batch answers a check cycle of the workflow specifications
CheckAnalyze(t) == CheckAnalyzeWith(t, ScoreChoices)

\* What a suspended handler does when it resumes.
Resume ==
    \E t \in Tasks :
        \/ CheckAnalyze(t)
        \/ CheckAlert(t)
        \/ GenFinish(t)
        \/ CleanupStart(t)
        \/ Probe(t)
        \/ Resolve(t)
        \/ SendOutcome(t)
        \/ PublishRecord(t)
        \/ FailReport(t)

\* The operator's events around publishing and reply targets.
ArriveReply(mode) ==
    \/ CmdCheck(mode)
    \/ PressGenerate(mode)
    \/ PressPublish(mode)
    \/ PressConfirmReply(mode)
    \/ PressPublishNow(mode)
    \/ PressReplySelect(mode)
    \/ PressReplyPick(mode)
    \/ PressReplyClear(mode)

\* An inbound event starts its handler.
Arrive(mode) ==
    \/ ArriveReply(mode)
    \/ PressEdit(mode)
    \/ PressPhoto(mode)
    \/ PhotoMessage(mode)
    \/ TextMessage(mode)
    \/ ChannelPost(mode)

Environment(mode) ==
    \/ ManualPost(mode)
    \/ ChannelDelete(mode)

Next == Resume \/ Arrive("any") \/ Environment("any")

NextSeq == Resume \/ Arrive("seq") \/ Environment("seq")

NextReply == Resume \/ ArriveReply("reply")

\* Drafting, then the edit and attach-media modes with every kind of message.
NextModes ==
    \/ \E t \in Tasks : CheckAnalyze(t) \/ CheckAlert(t) \/ GenFinish(t)
    \/ CmdCheck("modes")
    \/ PressGenerate("modes")
    \/ PressEdit("modes")
    \/ PressPhoto("modes")
    \/ OperatorMessage("modes")

\* Operator-triggered and timer-triggered check cycles interleave while the
\* sources publish.
NextCheck ==
    \/ \E t \in Tasks : CheckAnalyzeWith(t, CheckScores) \/ CheckAlert(t)
    \/ CmdCheck("check")
    \/ ScheduledCheck("check")
    \/ FeedPost

NextRestart ==
    \/ \E t \in Tasks : CheckAnalyzeWith(t, CheckScores) \/ CheckAlert(t)
    \/ CmdCheck("restart")
    \/ FeedPost
    \/ Tick
    \/ Restart

NextLoad == LoadStores \/ WriteStores

NextResolve == ResolveCall

NextOffer == ResolveCall \/ OfferCall

NextAnalyze == AnalyzeCycle

NextDaily ==
    \/ DailyRecord
    \/ CmdDigest
    \/ Tick
    \/ Restart

SpecIngest == InitIngest /\ [][NextIngest]_vars

SpecLedger == InitLedger /\ [][NextLedger]_vars

\* Handlers interleave at their await points.
Spec == Init /\ [][Next]_vars

\* Handlers run one at a time.
SpecSeq == Init /\ [][NextSeq]_vars

\* Handlers interleave; the operator only works on publishing and reply targets.
SpecReply == Init /\ [][NextReply]_vars


\* Handlers run one at a time; the operator drafts, edits and attaches media.
SpecModes == Init /\ [][NextModes]_vars

\* The analysis of a check cycle on its own, over two sub-batches and every
\* response of the collaborator.
SpecAnalyze == InitAnalyze /\ [][NextAnalyze]_vars

\* Check cycles started by the operator and by the timer interleave at their
\* await points.
SpecCheck == InitCheck /\ [][NextCheck]_vars

\* Check cycles, day changes and restarts of the process at any point.
SpecRestart == InitRestart /\ [][NextRestart]_vars

\* The three loads on files of every shape, and a write after each.
SpecLoad == InitLoad /\ [][NextLoad]_vars

\* find_related_post and the offer made from its answer, over ledgers in which
\* an item may have been published twice.
SpecOffer == InitOffer /\ [][NextOffer]_vars

\* find_related_post on its own, over every candidate list and collaborator answer.
SpecResolve == InitResolve /\ [][NextResolve]_vars

\* The daily cache over several days: recording, digests, restarts.
SpecDaily == InitDaily /\ [][NextDaily]_vars
(***************************************************************************)
(* Claims on ingestion (checked under SpecIngest).                         *)
(***************************************************************************)

\* C1: after a completed ingestion cycle, the next completed cycle over the
\* same fetched feed contents yields an empty batch (no clearing in between).
C1_SecondCycleEmpty ==
    \A i \in 1..(Len(cycleLog) - 1) :
        cycleLog[i + 1].fetched = cycleLog[i].fetched => cycleLog[i + 1].batch = <<>>

\* C1 witness: two completed cycles over the same non-empty feed contents, the
\* first of which yielded something.
C1_Witness ==
    /\ Len(cycleLog) >= 2
    /\ cycleLog[2].fetched = cycleLog[1].fetched
    /\ cycleLog[1].batch # <<>>

\* C2: with no operator clearing, no fingerprint is yielded twice, neither in
\* two batches nor twice in one batch.
C2_YieldedAtMostOnce == ~cleared => NoDup(yieldLog)

\* C3: a cycle interrupted before its save leaves the persisted store as it was,
\* and the following run over the same fetched contents computes the same
\* candidate batch as the interrupted one.
C3_CrashBeforeSaveIsRetried ==
    /\ cpc \in {"loop", "mark", "save"} => seenFile = storeAtStart
    /\ crashLog # <<>> => seenFile = crashLog[1].store
    /\ (cpc = "mark" /\ crashLog # <<>> /\ fetched = crashLog[1].fetched)
          => all_news = crashLog[1].cand

\* C3 witness: the re-run after an interrupted cycle has recomputed a non-empty
\* candidate batch over the same contents.
C3_Witness ==
    /\ cpc = "mark"
    /\ crashLog # <<>>
    /\ fetched = crashLog[1].fetched
    /\ all_news # <<>>

\* C4: the store never holds a fingerprint of an item whose batch the caller has
\* not yet received (record only after the yield).
C4_RecordedOnlyAfterYield == seenFile \subseteq ingested

(***************************************************************************)
(* Claim on the ledger bound (checked under SpecLedger).                   *)
(***************************************************************************)

\* C5: the ledger never holds more than MAX_PUBLISHED entries, and as long as
\* nothing was pruned it is exactly the MAX_PUBLISHED most recently appended
\* entries, in append order.
C5_LedgerBound ==
    /\ Len(ledger) <= MAX_PUBLISHED
    /\ ~pruned => ledger = LastN(appendLog, MAX_PUBLISHED)

\* C5 witness: more than MAX_PUBLISHED + 1 entries were appended, so the oldest
\* ones have been evicted.
C5_Witness ==
    /\ ~pruned
    /\ Len(appendLog) >= MAX_PUBLISHED + 2
    /\ Len(ledger) = MAX_PUBLISHED

(***************************************************************************)
(* Claims on the publish workflow.                                         *)
(***************************************************************************)

C7_PublishedIsTerminal ==
    /\ \A i, j \in 1..Len(transmits) : i # j => transmits[i].uid # transmits[j].uid
    /\ \A i, j \in 1..Len(ledger) :
          (i # j /\ ledger[i].uid \in WUids) => ledger[i].uid # ledger[j].uid

\* C8: the step that follows a successful send appends exactly one ledger entry,
\* carrying the item's uid, the post text handed to the send and the message id
\* the channel gave to that send, and leaves the item without a reply target.
\* The channel message shows that text (a photo caption shows its first
\* CAPTION_LIMIT characters).
C8_SuccessAppendsOneEntry ==
    [][\A t \in Tasks :
         (tasks[t].pc = "sent" /\ tasks'[t].pc # "sent") =>
            LET e == Entry(tasks[t].uid, tasks[t].post, tasks[t].msg)
            IN /\ Len(ledger) < MAX_PUBLISHED => ledger' = Append(ledger, e)
               /\ ledger' # <<>>
               /\ ledger'[Len(ledger')] = e
               /\ \E i \in 1..Len(transmits) :
                     /\ transmits[i].mid = e.mid
                     /\ transmits[i].uid = e.uid
                     /\ transmits[i].post = e.text
               /\ chan[e.mid].by = "bot"
               /\ chan[e.mid].text = IF chan[e.mid].photo # 0 THEN Caption(e.text)
                                     ELSE e.text
               /\ reply_targets'[e.uid] = 0]_vars

\* C8 witness: a post sent as a reply has been recorded and its item has no
\* reply target any more.
C8_Witness ==
    \E i \in 1..Len(transmits) :
        /\ transmits[i].reply # 0
        /\ \E j \in 1..Len(ledger) :
              ledger[j] = Entry(transmits[i].uid, transmits[i].post, transmits[i].mid)
        /\ reply_targets[transmits[i].uid] = 0
        /\ AllIdle

\* C9: when the send of a publish fails, the item's draft text, attached photo
\* and reply target are what they were when the publish action was chosen, and
\* nothing was appended to the ledger (checked under SpecSeq, where no other
\* handler runs in between).
C9_FailedPublishChangesNothing ==
    \A t \in Tasks :
        tasks[t].pc = "failed" => Snapshot(tasks[t].uid) = tasks[t].snap

C11_FailedGenerationKeepsDraft ==
    \A i \in 1..Len(genLog) : genLog[i].after = genLog[i].before

\* C12: a publish is transmitted as a reply to the reply target its item has at
\* the time of the transmit, and the step that records a successful publish
\* clears no reply target other than the one the post was sent as a reply to
\* (checked under SpecReply, where a target can be picked while a publish of
\* the same item is suspended).
C12_ReplyTargetConsumedOnce ==
    [][\A t \in Tasks :
         LET uid == tasks[t].uid
         IN /\ (tasks[t].pc = "send" /\ tasks'[t].pc = "sent" /\ reply_targets[uid] # 0)
                  => tasks[t].reply = reply_targets[uid]
            /\ (tasks[t].pc = "sent" /\ tasks'[t].pc # "sent" /\ reply_targets[uid] # 0)
                  => tasks[t].reply = reply_targets[uid]]_vars

\* C13: a reconciliation removes from the ledger it read exactly the entries
\* whose probe failed, keeps the others in their order, and returns that same
\* list (checked under SpecSeq: nothing else writes the ledger meanwhile).
C13_ReconciliationRemovesFailed ==
    LET survivors == SelectSeq(reconLog.before,
                               LAMBDA p : p.mid \notin reconLog.failed)
    IN /\ reconLog.after = survivors
       /\ reconLog.returned = survivors

\* C13 witness: a reconciliation over at least two entries removed some and
\* kept some.
C13_Witness ==
    /\ Len(reconLog.before) >= 2
    /\ reconLog.failed # {}
    /\ reconLog.after # <<>>
    /\ Len(reconLog.after) < Len(reconLog.before)


(***************************************************************************)
(* C14: given a candidate list and a collaborator that answers with an     *)
(* index i within range, find_related_post returns exactly the uid of the  *)
(* i-th candidate (counted from 0); given no index, or an index out of     *)
(* range, it returns none.                                                 *)
(***************************************************************************)
C14_ResolveReturnsIndexedCandidate ==
    (resolver_out[1] = "returned" /\ ~resolver_in.raised) =>
        LET posts == resolver_in.posts
            answer == resolver_in.answer
        IN IF answer # <<>> /\ answer[1] \in 0..(Len(posts) - 1)
           THEN resolver_out[2] = <<posts[answer[1] + 1].uid>>
           ELSE resolver_out[2] = <<>>

C14_Witness ==
    /\ resolver_out[1] = "returned"
    /\ ~resolver_in.raised
    /\ Len(resolver_in.posts) = 2
    /\ resolver_in.answer = <<1>>
    /\ resolver_out[2] = <<resolver_in.posts[2].uid>>
    /\ resolver_in.posts[1].uid # resolver_in.posts[2].uid

(***************************************************************************)
(* C15: when the collaborator of find_related_post fails or finds no       *)
(* match, the publish goes on to transmit the post without a reply target: *)
(* the handler leaves the resolving step either for the send, with no      *)
(* reply target and the post unchanged, or to ask the operator about a     *)
(* candidate that was found.                                               *)
(***************************************************************************)
C15_NoMatchPublishesWithoutReply ==
    [][\A t \in Tasks :
         (tasks[t].pc = "resolve" /\ tasks'[t].pc # "resolve") =>
            \/ /\ tasks'[t].pc = "send"
               /\ tasks'[t].reply = 0
               /\ tasks'[t].uid = tasks[t].uid
               /\ tasks'[t].post = tasks[t].post
            \/ /\ tasks'[t] = IdleTask
               /\ \E i \in 1..Len(tasks[t].posts) :
                    \E e \in Range(ledger) :
                       /\ e.uid = tasks[t].posts[i].uid
                       /\ <<"confirmreply", tasks[t].uid, e.mid>> \in buttons']_vars

C15_Witness ==
    \E i \in 1..Len(transmits) :
        /\ transmits[i].kind = "publish"
        /\ transmits[i].resolved = "none"
        /\ transmits[i].reply = 0
        /\ chan[transmits[i].mid].reply = 0

(***************************************************************************)
(* C16: loading the daily cache on a calendar day that differs from the    *)
(* day key of the bucket in the file gives an empty store.                 *)
(***************************************************************************)
C16_RolloverLoadIsEmpty ==
    (dailyOp.op = "load" /\ dailyFile # {} /\ \A b \in dailyFile : b.day # today)
        => daily_news_cache = {}

C16_Witness ==
    /\ dailyOp.op = "load"
    /\ \E b \in dailyFile : b.day < today /\ b.items # <<>>
    /\ daily_news_cache = {}

C18_RecordAddsWithoutDuplicates ==
    /\ \A b \in daily_news_cache \cup dailyFile :
         \A i, j \in 1..Len(b.items) : b.items[i].uid = b.items[j].uid => i = j
    /\ dailyOp.op = "save" =>
         LET bucket == Bucket(daily_news_cache, today)
             before == dailyOp.before
             items == dailyOp.items
         IN /\ Len(before) <= Len(bucket)
            /\ SubSeq(bucket, 1, Len(before)) = before
            /\ Bucket(dailyFile, today) = bucket
            /\ \A i \in 1..Len(items) :
                 \E j \in 1..Len(bucket) : bucket[j].uid = Uid(items[i].url)
            /\ \A i \in 1..Len(items) :
                 ( /\ \A k \in 1..Len(before) : before[k].uid # Uid(items[i].url)
                   /\ \A k \in 1..(i - 1) : items[k].url # items[i].url )
                 => \E j \in (Len(before) + 1)..Len(bucket) :
                        bucket[j] = [uid |-> Uid(items[i].url), score |-> items[i].score,
                                     rec |-> today]

C18_Witness ==
    /\ dailyOp.op = "save"
    /\ Len(dailyOp.items) = 2
    /\ dailyOp.items[1].url = dailyOp.items[2].url
    /\ dailyOp.items[1].score # dailyOp.items[2].score
    /\ \E k \in 1..Len(dailyOp.before) : dailyOp.before[k].uid # Uid(dailyOp.items[1].url)
    /\ Len(Bucket(daily_news_cache, today)) = Len(dailyOp.before) + 1

C20_MissingReferenceChangesNothing ==
    [][\A u \in WUids :
         (reply_targets'[u] # reply_targets[u] /\ reply_targets'[u] # 0) =>
            /\ generated_posts[u] # NoText
            /\ reply_targets'[u] \in MsgIds(ledger)]_vars

(***************************************************************************)
(* C21: while an item is being edited in a conversation (and no photo is   *)
(* awaited there), the next message decides: a free text becomes the       *)
(* item's draft and ends editing; a message that begins with "/" ends      *)
(* editing and leaves every draft as it was.                               *)
(***************************************************************************)
C21_NextMessageEndsEditing ==
    [][lastMsg' # lastMsg =>
         LET m == lastMsg'
             uid == editing_state[m.chat]
         IN (uid # NoUid /\ photo_state[m.chat] = NoUid) =>
              /\ m.kind = "text" =>
                    /\ generated_posts'[uid] = m.text
                    /\ editing_state'[m.chat] = NoUid
              /\ m.kind \in {"slash", "command"} =>
                    /\ editing_state'[m.chat] = NoUid
                    /\ generated_posts' = generated_posts]_vars

(***************************************************************************)
(* C22: while a photo is awaited for an item in a conversation, the next   *)
(* message decides: a photo is attached to the item and ends the waiting;  *)
(* any other message ends the waiting and leaves the attached photos as    *)
(* they were.                                                              *)
(***************************************************************************)
C22_NextMessageEndsWaiting ==
    [][lastMsg' # lastMsg =>
         LET m == lastMsg'
             uid == photo_state[m.chat]
         IN uid # NoUid =>
              /\ photo_state'[m.chat] = NoUid
              /\ IF m.kind = "photo" THEN post_photos'[uid] = m.file
                 ELSE post_photos' = post_photos]_vars

(***************************************************************************)
(* C23: when the analysis call of a sub-batch raises, the items of that    *)
(* sub-batch are dropped from the analysed result: they are not among the  *)
(* hot items and not recorded for the day; the items of the other          *)
(* sub-batch, whose call gave them a score, are analysed with that score.  *)
(***************************************************************************)
C23_FailedBatchIsDropped ==
    analysis_out.done =>
        LET news == analysis_in.news
            BatchOf(i) == (i + BATCH_SIZE - 1) \div BATCH_SIZE
            Failed(i) == analysis_in.responses[BatchOf(i)].raised
        IN \A i \in 1..Len(news) :
             Failed(i) =>
                /\ \A j \in 1..Len(analysis_out.analyzed) :
                      analysis_out.analyzed[j].url # news[i].url
                /\ \A j \in 1..Len(analysis_out.hot) :
                      analysis_out.hot[j].url # news[i].url
                /\ \A j \in 1..Len(analysis_out.recorded) :
                      analysis_out.recorded[j].uid # Uid(news[i].url)

(***************************************************************************)
(* C24: the hype score of every item of the analysed batch, of the hot     *)
(* items that go to the workspace and of the items recorded for the day is *)
(* an integer in 0..10, whatever the collaborator answered.                *)
(***************************************************************************)
C24_ScoresInRange ==
    /\ \A j \in 1..Len(analysis_out.analyzed) : analysis_out.analyzed[j].score \in 0..10
    /\ \A j \in 1..Len(analysis_out.hot) : analysis_out.hot[j].score \in 0..10
    /\ \A j \in 1..Len(analysis_out.recorded) : analysis_out.recorded[j].score \in 0..10

(***************************************************************************)
(* C25: when a check cycle has finished without error, an item it analysed *)
(* was put in news_cache and alerted exactly if its score is at least      *)
(* HYPE_THRESHOLD, the alerts went out in non-increasing order of score,   *)
(* and every analysed item is in today's bucket of the daily cache.        *)
(***************************************************************************)
C25_CycleAlertsHotItems ==
    (checkLog.done /\ checkLog.ok) =>
        /\ \A i \in 1..Len(checkLog.analyzed) :
             LET item == checkLog.analyzed[i]
                 hot == item.score >= HYPE_THRESHOLD
             IN /\ hot <=> item \in Range(checkLog.cached)
                /\ hot <=> item \in Range(checkLog.alerted)
                /\ hot => /\ news_cache[Uid(item.url)] # Absent
                          /\ <<"generate", Uid(item.url), 0>> \in buttons
                /\ \E j \in 1..Len(Bucket(daily_news_cache, today)) :
                      Bucket(daily_news_cache, today)[j].uid = Uid(item.url)
        /\ Range(checkLog.cached) \subseteq Range(checkLog.analyzed)
        /\ Range(checkLog.alerted) \subseteq Range(checkLog.analyzed)
        /\ \A i \in 1..(Len(checkLog.alerted) - 1) :
             checkLog.alerted[i].score >= checkLog.alerted[i + 1].score

C25_Witness ==
    /\ checkLog.done
    /\ checkLog.ok
    /\ Len(checkLog.analyzed) = 2
    /\ checkLog.analyzed[1].score = HYPE_THRESHOLD
    /\ checkLog.analyzed[2].score > HYPE_THRESHOLD
    /\ checkLog.alerted = <<checkLog.analyzed[2], checkLog.analyzed[1]>>

(***************************************************************************)
(* C29: when check cycles started by the operator and by the timer         *)
(* interleave at their await points, a cycle is never handed a uid that an *)
(* earlier cycle was handed, and no uid leaves the seen file: a write of   *)
(* one cycle keeps what the other recorded.                                *)
(***************************************************************************)
C29_CyclesShareNoFingerprint ==
    [][/\ \A i \in (Len(yieldLog) + 1)..Len(yieldLog') :
            yieldLog'[i] \notin Range(yieldLog)
       /\ seenFile \subseteq seenFile'
       /\ Range(yieldLog') \subseteq seenFile']_vars

C29_Witness ==
    /\ \E t, u \in Tasks :
         /\ tasks[t].kind = "check" /\ tasks[t].pc # "idle"
         /\ tasks[u].kind = "scheduled" /\ tasks[u].pc # "idle"
    /\ Len(yieldLog) = 2
    /\ yieldLog[1] # yieldLog[2]
    /\ seenFile = {yieldLog[1], yieldLog[2]}

(***************************************************************************)
(* C26: a file that is malformed or of the wrong shape is loaded as an     *)
(* empty store, and the write that follows succeeds and leaves exactly     *)
(* what was written.                                                       *)
(***************************************************************************)
C26_BadFileLoadsEmpty ==
    /\ load_out.step = "loaded" =>
         /\ load_in.seen # "valid" => load_out.seen = {}
         /\ load_in.ledger # "valid" => load_out.ledger = <<>>
         /\ load_in.daily # "valid" => load_out.daily = {}
    /\ load_out.step = "written" =>
         /\ load_out.wrote = [seen |-> TRUE, ledger |-> TRUE, daily |-> TRUE]
         /\ load_in.seen # "valid" => load_out.seen = {Uid(2)}
         /\ load_in.ledger # "valid" => Len(load_out.ledger) = 1

(***************************************************************************)
(* C27: a restart of the process leaves the seen file, the ledger and the  *)
(* bucket of today in the daily cache as they were, and a check cycle that *)
(* starts before anything was recorded since the process started is handed *)
(* no uid that the seen file held or that an earlier cycle was handed.     *)
(***************************************************************************)
C27_RestartKeepsStores ==
    [][/\ Restart =>
            /\ seenFile' = seenFile
            /\ ledger' = ledger
            /\ dailyFile' = dailyFile
            /\ Bucket(daily_news_cache', today') = Bucket(daily_news_cache, today)
            /\ \A u \in WUids : news_cache'[u] = Absent /\ generated_posts'[u] = NoText
       /\ dailyOp.op = "load" =>
            \A i \in (Len(yieldLog) + 1)..Len(yieldLog') :
                yieldLog'[i] \notin seenFile \cup Range(yieldLog)]_vars

C27_Witness ==
    /\ dailyOp.op = "load"
    /\ checkLog.done
    /\ ledger # <<>>
    /\ Bucket(daily_news_cache, today) # <<>>
    /\ \E t \in Tasks : tasks[t].pc = "chk_analyze" /\ tasks[t].hot # <<>>
    /\ Cardinality(seenFile) >= 2

(***************************************************************************)
(* C28: a publish pressed while the item has no reply target starts the    *)
(* reconciliation; find_related_post is entered only from the probe of the *)
(* last entry, after the failed entries left the ledger, and with exactly  *)
(* the probed entries whose probe did not fail.  A publish pressed while   *)
(* the item has a reply target goes straight to the send, and what it      *)
(* sends is a reply to that target.                                        *)
(***************************************************************************)
C28_ReconcileThenResolve ==
    [][\A t \in Tasks :
         LET old == tasks[t]
             new == tasks'[t]
         IN /\ (old.pc = "idle" /\ new.kind = "publish") =>
                  IF reply_targets[new.uid] = 0
                  THEN new.pc = "cleanup" /\ new.reply = 0
                  ELSE new.pc = "send" /\ new.reply = reply_targets[new.uid]
            /\ (new.kind = "publish" /\ new.pc \in {"cleanup", "probe", "resolve"}) =>
                  new.reply = 0
            /\ (new.pc = "resolve" /\ old.pc # "resolve") =>
                  /\ old.pc = "probe"
                  /\ old.i = Len(old.posts)
                  /\ reconLog'.before = old.posts
                  /\ old.deleted_ids \subseteq reconLog'.failed
                  /\ reconLog'.failed \subseteq old.deleted_ids \cup {old.posts[old.i].mid}
                  /\ MsgIds(ledger') \cap reconLog'.failed = {}
                  /\ new.posts = SelectSeq(old.posts,
                                           LAMBDA p : p.mid \notin reconLog'.failed)
            /\ (old.kind = "publish" /\ old.pc = "send" /\ old.resolved = "skipped"
                    /\ old.reply # 0) =>
                  /\ new.pc \in {"send", "sent", "failed"}
                  /\ new.pc = "sent" =>
                        /\ Len(chan') = Len(chan) + 1
                        /\ chan'[Len(chan')].reply = old.reply]_vars

C28_Witness ==
    /\ \E i \in 1..Len(transmits) :
         /\ transmits[i].kind = "publish"
         /\ transmits[i].resolved = "skipped"
         /\ transmits[i].reply # 0
         /\ chan[transmits[i].mid].reply = transmits[i].reply
    /\ \E b \in buttons : b[1] = "confirmreply"
    /\ reconLog.returned # <<>>

C31_ReplyTargetInLedger ==
    [][\A t \in Tasks :
         (tasks[t].pc = "send" /\ tasks'[t].pc = "sent" /\ tasks[t].reply # 0) =>
            tasks[t].reply \in MsgIds(ledger)]_vars

(***************************************************************************)
(* C32: when find_related_post selects the candidate at index i, the       *)
(* message id put into the confirm-reply button is the message id of that  *)
(* i-th candidate, also when two candidates carry the same uid.            *)
(***************************************************************************)
C32_OfferIsSelectedCandidate ==
    (/\ resolver_out[1] = "offered"
     /\ ~resolver_in.raised
     /\ resolver_in.answer # <<>>
     /\ resolver_in.answer[1] \in 0..(Len(resolver_in.posts) - 1)) =>
        resolver_out[3] = <<resolver_in.posts[resolver_in.answer[1] + 1].mid>>

(***************************************************************************)
(* C33: the entries a reconciliation removes from the ledger are entries   *)
(* whose channel message was deleted; an entry whose message is still on   *)
(* the channel is kept, whatever its probe did.                            *)
(***************************************************************************)
C33_OnlyDeletedRemoved ==
    /\ reconLog.failed \subseteq deletedMsgs
    /\ \A i \in 1..Len(reconLog.before) :
         reconLog.before[i].mid \notin deletedMsgs =>
            \E j \in 1..Len(reconLog.returned) : reconLog.returned[j] = reconLog.before[i]

(***************************************************************************)
(* C34: when a check cycle has ended, every item it analysed with a score  *)
(* of at least HYPE_THRESHOLD is in news_cache and was alerted, or its uid *)
(* is not in the seen file, so that a later cycle is handed it again.      *)
(***************************************************************************)
C34_HotItemsNotLost ==
    checkLog.done =>
        \A i \in 1..Len(checkLog.analyzed) :
            LET item == checkLog.analyzed[i]
            IN item.score >= HYPE_THRESHOLD =>
                  \/ /\ news_cache[Uid(item.url)] # Absent
                     /\ \E j \in 1..Len(checkLog.alerted) : checkLog.alerted[j] = item
                  \/ Uid(item.url) \notin seenFile

(***************************************************************************)
(* C35: no chat is at the same time waiting for an edited text and for a   *)
(* photo.                                                                  *)
(***************************************************************************)
C35_OnePendingInput ==
    \A c \in Chats : ~(editing_state[c] # NoUid /\ photo_state[c] # NoUid)
====
